---- MODULE Spec2Model ----
(***************************************************************************)
(* Model of the site-localization scripts: translate_html_files.py        *)
(* (translation table, fuzzy lookup, markup walker, link translation,     *)
(* copy of a tree under translated names), rewrite_links.py (href         *)
(* rewriting with the identifier table), rename_files.py (renaming        *)
(* between labels and identifiers), find_missing_info.py (resolution of    *)
(* the labels of missing.csv) and extract_html_textual_elements.py (the    *)
(* texts recorded for translation).                                        *)
(*                                                                         *)
(* Strings are sequences of one-character strings.  The separator          *)
(* characters of the source are written in ASCII: "-" is the hyphen, "*"   *)
(* stands for the bullet U+2022 and "~" for the dashes U+2013, U+2014 and  *)
(* the minus U+2212, which every regular expression of the source treats   *)
(* alike.  " " stands for any whitespace character matched by \s.          *)
(***************************************************************************)
EXTENDS Integers, Sequences, FiniteSets, TLC

VARIABLES
    pc,                   \* position of the run that is modelled
    csv_rows,             \* rows read so far from the two translation files
    translations,         \* load_translations(translations_file)
    long_translations,    \* load_translations(long_translations_file)
    translation_map,      \* TranslationReplacer.translation_map (ordered dict)
    lookup_variations,    \* TranslationReplacer.lookup_variations
    missing_translations, \* TranslationReplacer.missing_translations
    output,               \* TranslationReplacer.output
    skip_level,           \* TranslationReplacer.skip_level
    labels,               \* rewrite_links: load_labels(labels_path)
    labels_csv,           \* the rows of labels.csv
    concepts_csv,         \* the rows of concepts.csv
    maps,                 \* rename_files: what load_all_maps returned
    tree,                 \* the files and directories below the root
    tree0,                \* the tree before the first run
    run,                  \* arguments and local state of the current run
    pending,              \* entries listed by the running loop and not yet handled
    report,               \* the messages printed so far
    missing_csv,          \* the rows of missing.csv
    dest,                 \* translate_html_files: the output tree and the writes
    last                  \* the call made by the last step and what it returned

vars == <<pc, csv_rows, translations, long_translations, translation_map,
          lookup_variations, missing_translations, output, skip_level, labels,
          labels_csv, concepts_csv, maps, tree, tree0, run, pending, report,
          missing_csv, dest, last>>

\* what the steps of translate_html_files.py leave alone
otherVars ==
    <<labels, labels_csv, concepts_csv, maps, tree, tree0, run, pending, report,
      missing_csv, dest>>

\* the state of rename_files.py and of the tree, which the steps of the other
\* two scripts leave alone
renameVars ==
    <<labels_csv, concepts_csv, maps, tree, tree0, run, pending, report,
      missing_csv, dest>>

NoTree == [files |-> {}, dirs |-> {}]

\* no output tree, nothing written
NoDest == [dirs |-> {}, files |-> {}, before |-> {}, writes |-> <<>>]

\* no table is read, no tree is walked
RenameIdle ==
    /\ labels_csv = <<>>
    /\ concepts_csv = <<>>
    /\ maps = <<>>
    /\ tree = NoTree
    /\ tree0 = NoTree
    /\ run = [n |-> 0]
    /\ pending = {}
    /\ report = {}
    /\ missing_csv = <<>>
    /\ dest = NoDest

----------------------------------------------------------------------------
(* Bounds *)

MaxRows == 2
MaxGap == 1
MaxTokens == 2
MaxEntries == 2

----------------------------------------------------------------------------
(* Characters and the string functions of Python that the code uses *)

Hyphen == "-"
Bullet == "*"
Dash == "~"

\* the class [•\-–—−] of the regular expressions
SepChars == {Bullet, Hyphen, Dash}

\* the class [•–—−] of _normalize_separators
NonHyphenSeps == {Bullet, Dash}

IsSpace(c) == c = " "

LowerChar(c) ==
    CASE c = "A" -> "a"
      [] c = "B" -> "b"
      [] c = "P" -> "p"
      [] c = "Q" -> "q"
      [] OTHER -> c

lower(s) == [i \in 1..Len(s) |-> LowerChar(s[i])]

RECURSIVE lstrip(_)
lstrip(s) == IF s # <<>> /\ IsSpace(Head(s)) THEN lstrip(Tail(s)) ELSE s

RECURSIVE rstrip(_)
rstrip(s) ==
    IF s # <<>> /\ IsSpace(s[Len(s)]) THEN rstrip(SubSeq(s, 1, Len(s) - 1)) ELSE s

strip(s) == rstrip(lstrip(s))

\* re.sub(r'\s+', ' ', s)
RECURSIVE collapse_ws(_)
collapse_ws(s) ==
    IF s = <<>> THEN <<>>
    ELSE IF IsSpace(Head(s)) THEN <<" ">> \o collapse_ws(lstrip(s))
    ELSE <<Head(s)>> \o collapse_ws(Tail(s))

\* re.sub(r'[cls]', rep, s)
RECURSIVE sub_chars(_, _, _)
sub_chars(s, cls, rep) ==
    IF s = <<>> THEN <<>>
    ELSE (IF Head(s) \in cls THEN rep ELSE <<Head(s)>>) \o sub_chars(Tail(s), cls, rep)

\* re.sub(r'\s*[cls]\s*', rep, s): leftmost matches, each with the whitespace
\* before and after the separator
RECURSIVE sub_spaced(_, _, _)
sub_spaced(s, cls, rep) ==
    IF s = <<>> THEN <<>>
    ELSE LET t == lstrip(s)
         IN  IF t # <<>> /\ Head(t) \in cls
             THEN rep \o sub_spaced(lstrip(Tail(t)), cls, rep)
             ELSE <<Head(s)>> \o sub_spaced(Tail(s), cls, rep)

normalize_text(text) == strip(collapse_ws(text))

normalize_separators(text) ==
    strip(collapse_ws(sub_spaced(sub_chars(text, NonHyphenSeps, <<Hyphen>>),
                                 {Hyphen}, <<" ", Hyphen, " ">>)))

----------------------------------------------------------------------------
(* Python dicts keep insertion order: a dict is a sequence of <<key, value>> *)
(* pairs with distinct keys                                                  *)

DictKeys(d) == {d[i][1] : i \in 1..Len(d)}

DictHas(d, k) == k \in DictKeys(d)

DictGet(d, k) == d[CHOOSE i \in 1..Len(d) : d[i][1] = k][2]

\* d[k] = v: a new key goes to the end, an existing key keeps its place
DictPut(d, k, v) ==
    IF DictHas(d, k)
    THEN [i \in 1..Len(d) |-> IF d[i][1] = k THEN <<k, v>> ELSE d[i]]
    ELSE Append(d, <<k, v>>)

\* {**a, **b}
RECURSIVE DictMerge(_, _)
DictMerge(a, b) ==
    IF b = <<>> THEN a ELSE DictMerge(DictPut(a, b[1][1], b[1][2]), Tail(b))

EmptyMap == [k \in {} |-> <<>>]

----------------------------------------------------------------------------
(* TranslationReplacer.__init__: the normalized-variant map *)

variations(k) ==
    << k,
       normalize_separators(k),
       sub_chars(k, SepChars, <<" ">>),
       sub_spaced(k, SepChars, <<" ", Bullet, " ">>),
       sub_spaced(k, SepChars, <<" ", Hyphen, " ">>) >>

variation_key(variation) == lower(strip(collapse_ws(variation)))

RECURSIVE add_variations_last_wins(_, _, _)
add_variations_last_wins(lv, vs, v) ==
    IF vs = <<>> THEN lv
    ELSE LET normalized == variation_key(Head(vs))
         IN  add_variations_last_wins((normalized :> v) @@ lv, Tail(vs), v)

\* the inner loop: a key that is already there is not overwritten
RECURSIVE add_variations(_, _, _)
add_variations(lv, vs, v) ==
    IF vs = <<>> THEN lv
    ELSE LET normalized == variation_key(Head(vs))
         IN  add_variations(IF normalized \in DOMAIN lv THEN lv
                            ELSE lv @@ (normalized :> v),
                            Tail(vs), v)

RECURSIVE build_variations(_, _)
build_variations(lv, items) ==
    IF items = <<>> THEN lv
    ELSE build_variations(add_variations(lv, variations(items[1][1]), items[1][2]),
                          Tail(items))

----------------------------------------------------------------------------
(* TranslationReplacer._translate_text *)

attempts(normalized) ==
    << lower(normalized),
       lower(normalize_separators(normalized)),
       lower(sub_spaced(normalized, SepChars, <<" ", Bullet, " ">>)),
       lower(sub_spaced(normalized, SepChars, <<" ", Hyphen, " ">>)),
       lower(sub_chars(normalized, SepChars, <<" ">>)) >>

\* the loop over the attempts: the first one that is in lookup_variations
RECURSIVE first_attempt(_, _)
first_attempt(lv, as) ==
    IF as = <<>> THEN [found |-> FALSE, value |-> <<>>]
    ELSE LET attempt_normalized == strip(collapse_ws(Head(as)))
         IN  IF attempt_normalized \in DOMAIN lv
             THEN [found |-> TRUE, value |-> lv[attempt_normalized]]
             ELSE first_attempt(lv, Tail(as))

\* a lookup without the case-insensitive fallback
translate_text_exact_only(tm, lv, missing, text) ==
    LET normalized == normalize_text(text)
        normalized_sep == normalize_separators(normalized)
    IN  IF DictHas(tm, normalized)
        THEN [value |-> DictGet(tm, normalized), missing |-> missing]
        ELSE IF normalized_sep # normalized /\ DictHas(tm, normalized_sep)
        THEN [value |-> DictGet(tm, normalized_sep), missing |-> missing]
        ELSE [value |-> text, missing |-> missing \cup {text}]

\* a lookup that goes to the case-insensitive map first
translate_text_folded_first(tm, lv, missing, text) ==
    LET normalized == normalize_text(text)
        normalized_sep == normalize_separators(normalized)
        fallback == first_attempt(lv, attempts(normalized))
    IN  IF fallback.found
        THEN [value |-> fallback.value, missing |-> missing]
        ELSE IF DictHas(tm, normalized)
        THEN [value |-> DictGet(tm, normalized), missing |-> missing]
        ELSE [value |-> text, missing |-> missing \cup {text}]

\* a lookup that forgets to record a text without translation
translate_text_unrecorded(tm, lv, missing, text) ==
    LET normalized == normalize_text(text)
        normalized_sep == normalize_separators(normalized)
        fallback == first_attempt(lv, attempts(normalized))
    IN  IF DictHas(tm, normalized)
        THEN [value |-> DictGet(tm, normalized), missing |-> missing]
        ELSE IF normalized_sep # normalized /\ DictHas(tm, normalized_sep)
        THEN [value |-> DictGet(tm, normalized_sep), missing |-> missing]
        ELSE IF fallback.found
        THEN [value |-> fallback.value, missing |-> missing]
        ELSE [value |-> text, missing |-> missing]

\* value: what the call returns; missing: missing_translations after the call
translate_text(tm, lv, missing, text) ==
    LET normalized == normalize_text(text)
        normalized_sep == normalize_separators(normalized)
        fallback == first_attempt(lv, attempts(normalized))
    IN  IF DictHas(tm, normalized)
        THEN [value |-> DictGet(tm, normalized), missing |-> missing]
        ELSE IF normalized_sep # normalized /\ DictHas(tm, normalized_sep)
        THEN [value |-> DictGet(tm, normalized_sep), missing |-> missing]
        ELSE IF fallback.found
        THEN [value |-> fallback.value, missing |-> missing]
        ELSE [value |-> text, missing |-> missing \cup {text}]

----------------------------------------------------------------------------
(* TranslationReplacer._translate_url *)

StartsWith(s, prefix) ==
    Len(s) >= Len(prefix) /\ SubSeq(s, 1, Len(prefix)) = prefix

StartsWithAny(s, prefixes) == \E prefix \in prefixes : StartsWith(s, prefix)

\* position of the first character of s that is in cls, 0 when there is none
FirstIn(s, cls) ==
    LET at == {i \in 1..Len(s) : s[i] \in cls}
    IN  IF at = {} THEN 0 ELSE CHOOSE i \in at : \A j \in at : i <= j

\* position of the last character of s that is in cls, 0 when there is none
LastIn(s, cls) ==
    LET at == {i \in 1..Len(s) : s[i] \in cls}
    IN  IF at = {} THEN 0 ELSE CHOOSE i \in at : \A j \in at : i >= j

\* s.split(c)
RECURSIVE split(_, _)
split(s, c) ==
    LET i == FirstIn(s, {c})
    IN  IF i = 0 THEN <<s>>
        ELSE <<SubSeq(s, 1, i - 1)>> \o split(SubSeq(s, i + 1, Len(s)), c)

\* c.join(parts)
RECURSIVE join(_, _)
join(parts, c) ==
    IF parts = <<>> THEN <<>>
    ELSE IF Len(parts) = 1 THEN parts[1]
    ELSE parts[1] \o <<c>> \o join(Tail(parts), c)

\* s.rsplit(c, 1) of a string that contains c
rsplit1(s, c) ==
    LET i == LastIn(s, {c})
    IN  <<SubSeq(s, 1, i - 1), SubSeq(s, i + 1, Len(s))>>

HttpPrefix == <<"h", "t", "t", "p", ":", "/", "/">>
HttpsPrefix == <<"h", "t", "t", "p", "s", ":", "/", "/">>
MailtoPrefix == <<"m", "a", "i", "l", "t", "o", ":">>
TelPrefix == <<"t", "e", "l", ":">>
JavascriptPrefix == <<"j", "a", "v", "a", "s", "c", "r", "i", "p", "t", ":">>

\* the prefixes of the first test of _translate_url
UntranslatedPrefixes ==
    {HttpPrefix, HttpsPrefix, MailtoPrefix, TelPrefix, <<"/", "/">>, <<"#">>}

\* translated_parts.append(...): r is the result of the lookup of text and
\* suffix the extension that is put back behind it
append_part(acc, r, suffix, text) ==
    [parts |-> Append(acc.parts, r.value \o suffix),
     missing |-> r.missing,
     looked |-> acc.looked \cup {text}]

\* the loop over the parts of the path; acc is [parts, missing, looked]
RECURSIVE translate_parts(_, _, _, _)
translate_parts(tm, lv, parts, acc) ==
    IF parts = <<>> THEN acc
    ELSE LET part == Head(parts)
         IN  IF part = <<>> \/ part = <<".">> \/ part = <<".", ".">>
             THEN translate_parts(tm, lv, Tail(parts),
                                  [acc EXCEPT !.parts = Append(@, part)])
             ELSE IF "." \in {part[i] : i \in 1..Len(part)}
             THEN LET name_parts == rsplit1(part, ".")
                      filename == name_parts[1]
                      extension == name_parts[2]
                  IN  translate_parts(tm, lv, Tail(parts),
                          append_part(acc,
                                      translate_text(tm, lv, acc.missing, filename),
                                      IF extension # <<>>
                                      THEN <<".">> \o extension ELSE <<>>,
                                      filename))
             ELSE translate_parts(tm, lv, Tail(parts),
                      append_part(acc, translate_text(tm, lv, acc.missing, part),
                                  <<>>, part))

\* '/'.join(translated_parts) + anchor_part; t is the result of the loop
joined_url(t, anchor_part) ==
    [value |-> join(t.parts, "/") \o anchor_part,
     missing |-> t.missing,
     looked |-> t.looked]

\* value: the url returned; missing: missing_translations after the call;
\* looked: the texts passed to _translate_text
translate_url(tm, lv, missing, url) ==
    IF \/ StartsWithAny(url, UntranslatedPrefixes)
       \/ url = <<>>
       \/ StartsWith(url, JavascriptPrefix)
    THEN [value |-> url, missing |-> missing, looked |-> {}]
    ELSE LET cut == FirstIn(url, {"#", "?"})
             path_part == IF cut = 0 THEN url ELSE SubSeq(url, 1, cut - 1)
             anchor_part == IF cut = 0 THEN <<>> ELSE SubSeq(url, cut, Len(url))
         IN  IF path_part = <<>>
             THEN [value |-> url, missing |-> missing, looked |-> {}]
             ELSE joined_url(translate_parts(tm, lv, split(path_part, "/"),
                                             [parts |-> <<>>, missing |-> missing,
                                              looked |-> {}]),
                             anchor_part)

----------------------------------------------------------------------------
(* The texts of the lookup specification: a word, two words, and two words  *)
(* around a separator, with up to MaxGap whitespace characters in each gap  *)

Gap(n) == [i \in 1..n |-> " "]

LeftWords == {"a", "A"}

Phrases(seps, gaps) ==
    {<<l>> : l \in LeftWords}
    \cup {<<l>> \o Gap(g) \o <<"b">> : l \in LeftWords, g \in gaps \ {0}}
    \cup {<<l>> \o Gap(g) \o <<s>> \o Gap(g) \o <<"b">> :
            l \in LeftWords, s \in seps, g \in gaps}

\* source texts of a loaded table: load_translations strips them; the gaps
\* are closed or of the full width
LookupKeys == Phrases({Hyphen, Bullet}, {0, MaxGap})

\* texts that occur in markup; attribute values are looked up unstripped
LookupTexts == Phrases(SepChars, 0..MaxGap) \cup {<<" ", l>> : l \in LeftWords}

\* the target of the row loaded at position i
MarkerChars == <<"x", "y", "z", "w">>
Marker(i) == <<MarkerChars[i]>>

\* the tables load_translations can return: distinct stripped keys, each with
\* a target that is not empty and differs from it; main() stops on an empty one
LoadedTables ==
    {[i \in 1..Len(ks) |-> <<ks[i], Marker(i)>>] :
        ks \in {s \in UNION {[1..n -> LookupKeys] : n \in 1..MaxRows} :
                   \A i, j \in 1..Len(s) : i # j => s[i] # s[j]}}

NoCall == [op |-> "none"]

NoRows == [short |-> <<>>, long |-> <<>>]

----------------------------------------------------------------------------
(* Specification SpecLookup: a table is loaded, a TranslationReplacer is    *)
(* constructed for it (once for each file), and texts are looked up         *)

InitLookup ==
    /\ pc = "loaded"
    /\ csv_rows = NoRows
    /\ translations = <<>>
    /\ long_translations = <<>>
    /\ translation_map \in LoadedTables
    /\ lookup_variations = EmptyMap
    /\ missing_translations = {}
    /\ output = <<>>
    /\ skip_level = 0
    /\ labels = <<>>
    /\ last = NoCall
    /\ RenameIdle

\* TranslationReplacer.__init__
Construct ==
    /\ pc \in {"loaded", "ready"}
    /\ pc' = "ready"
    /\ lookup_variations' = build_variations(EmptyMap, translation_map)
    /\ output' = <<>>
    /\ skip_level' = 0
    /\ missing_translations' = {}
    /\ last' = NoCall
    /\ UNCHANGED <<otherVars, csv_rows, translations, long_translations, translation_map>>

\* one call of _translate_text
TranslateText(text) ==
    /\ pc = "ready"
    /\ LET r == translate_text(translation_map, lookup_variations,
                               missing_translations, text)
       IN  /\ missing_translations' = r.missing
           /\ last' = [op |-> "translate_text", text |-> text, value |-> r.value]
    /\ UNCHANGED <<otherVars, pc, csv_rows, translations, long_translations, translation_map,
                   lookup_variations, output, skip_level>>

\* the first text a new TranslationReplacer is asked for
LookupText ==
    /\ last = NoCall
    /\ \E text \in LookupTexts : TranslateText(text)

NextLookup == Construct \/ LookupText

SpecLookup == InitLookup /\ [][NextLookup]_vars

----------------------------------------------------------------------------
(* Candidate keys of a lookup.  A candidate is <<map, key>>: "exact" is     *)
(* looked up in translation_map, "variant" in lookup_variations              *)

HasEntry(tm, lv, c) ==
    IF c[1] = "exact" THEN DictHas(tm, c[2]) ELSE c[2] \in DOMAIN lv

EntryOf(tm, lv, c) ==
    IF c[1] = "exact" THEN DictGet(tm, c[2]) ELSE lv[c[2]]

\* index of the first candidate with an entry, 0 when there is none
HitIndex(tm, lv, cands) ==
    LET hits == {i \in 1..Len(cands) : HasEntry(tm, lv, cands[i])}
    IN  IF hits = {} THEN 0 ELSE CHOOSE i \in hits : \A j \in hits : i <= j

FirstEntry(tm, lv, cands, text) ==
    LET i == HitIndex(tm, lv, cands)
    IN  IF i = 0 THEN text ELSE EntryOf(tm, lv, cands[i])

\* the six candidates of the specification, the last in its two renderings
ListedCandidates(text) ==
    << <<"exact", text>>,
       <<"exact", normalize_text(text)>>,
       <<"exact", normalize_separators(text)>>,
       <<"variant", lower(text)>>,
       <<"variant", lower(normalize_text(text))>>,
       <<"variant", variation_key(sub_spaced(text, SepChars, <<" ", Bullet, " ">>))>>,
       <<"variant", variation_key(sub_spaced(text, SepChars, <<" ", Hyphen, " ">>))>> >>

\* the candidates with the form in which every separator is a space added,
\* and without the text as authored
AllCandidates(text) ==
    << <<"exact", normalize_text(text)>>,
       <<"exact", normalize_separators(text)>>,
       <<"variant", lower(normalize_text(text))>>,
       <<"variant", lower(normalize_separators(text))>>,
       <<"variant", variation_key(sub_spaced(text, SepChars, <<" ", Bullet, " ">>))>>,
       <<"variant", variation_key(sub_spaced(text, SepChars, <<" ", Hyphen, " ">>))>>,
       <<"variant", variation_key(sub_chars(text, SepChars, <<" ">>))>> >>

Looked == last.op = "translate_text"

\* C1 as stated: the result of _translate_text is the target of the first of
\* the six listed candidates (exact, normalized, separator-normalized, then the
\* case-folded ones, the last as ' * ' and then ' - ') that has a table entry.
C1_ListedOrder ==
    Looked => last.value = FirstEntry(translation_map, lookup_variations,
                                      ListedCandidates(last.text), last.text)

\* C1 amended: the result of _translate_text is the target of the first
\* candidate with an entry in the order: normalized text and separator-
\* normalized text in the exact map, then in the variant map the case-folded
\* normalized text, its separator-normalized form, the ' * ' and ' - '
\* renderings and the text with every separator replaced by a space.
C1_CandidateOrder ==
    Looked => last.value = FirstEntry(translation_map, lookup_variations,
                                      AllCandidates(last.text), last.text)

\* a lookup that only the last candidate (separators as spaces) resolves
C1_Witness ==
    /\ Looked
    /\ HitIndex(translation_map, lookup_variations, AllCandidates(last.text)) = 7
    /\ last.value # last.text

\* C2 as stated: a text for which none of the six listed candidates has a
\* table entry is returned unchanged and is recorded in the missing set.
C2_ListedMiss ==
    (Looked /\ HitIndex(translation_map, lookup_variations,
                        ListedCandidates(last.text)) = 0)
        => (last.value = last.text /\ last.text \in missing_translations)

\* C2 amended: a text for which no candidate, the one with every separator
\* replaced by a space included, has an entry is returned unchanged and is
\* recorded in the missing set.
C2_Miss ==
    (Looked /\ HitIndex(translation_map, lookup_variations,
                        AllCandidates(last.text)) = 0)
        => (last.value = last.text /\ last.text \in missing_translations)

\* a lookup of a text that contains a separator and has no candidate
C2_Witness ==
    /\ Looked
    /\ HitIndex(translation_map, lookup_variations, AllCandidates(last.text)) = 0
    /\ \E i \in 1..Len(last.text) : last.text[i] \in SepChars
    /\ missing_translations = {last.text}

\* a key of the form 'A - B'
IsDashKey(k) ==
    /\ k = normalize_separators(k)
    /\ \E i \in 1..Len(k) : k[i] = Hyphen

\* the text with every separator written as a hyphen without whitespace
\* around it, case-folded
Squeezed(text) == lower(sub_spaced(text, SepChars, <<Hyphen>>))

\* t differs from k only in the separator character, the whitespace around
\* it, or letter case
SeparatorVariant(t, k) ==
    /\ Squeezed(t) = Squeezed(k)
    /\ \E i \in 1..Len(t) : t[i] \in SepChars

\* C3 as stated: a text that differs from a key 'A - B' only in the separator
\* character, the whitespace around it or letter case resolves to the target
\* of that key, whatever else the table holds.
C3_AnyTable ==
    Looked =>
        \A i \in 1..Len(translation_map) :
            (IsDashKey(translation_map[i][1])
             /\ SeparatorVariant(last.text, translation_map[i][1]))
                => last.value = translation_map[i][2]

\* C3 amended: the same, for a key 'A - B' of which no other key of the table
\* is such a variant.
C3_SeparatorFallback ==
    Looked =>
        \A i \in 1..Len(translation_map) :
            (/\ IsDashKey(translation_map[i][1])
             /\ SeparatorVariant(last.text, translation_map[i][1])
             /\ \A j \in 1..Len(translation_map) :
                    j # i => ~SeparatorVariant(translation_map[j][1],
                                               translation_map[i][1]))
                => last.value = translation_map[i][2]

\* the second key of the table is 'a - b' and the text differs from it in the
\* separator, the whitespace and the case
C3_Witness ==
    /\ Looked
    /\ Len(translation_map) = 2
    /\ translation_map[2][1] = <<"a", " ", Hyphen, " ", "b">>
    /\ ~SeparatorVariant(translation_map[1][1], translation_map[2][1])
    /\ last.text = <<"A", Dash, "b">>
    /\ last.value = translation_map[2][2]

VariantKeys(k) ==
    LET vs == variations(k)
    IN  {variation_key(vs[i]) : i \in 1..Len(vs)}

\* position of the first loaded key that has n among its variants
FirstLoaded(tm, n) ==
    LET at == {i \in 1..Len(tm) : n \in VariantKeys(tm[i][1])}
    IN  CHOOSE i \in at : \A j \in at : i <= j

\* the lookup went past the two exact candidates
PastExact ==
    /\ Looked
    /\ ~DictHas(translation_map, normalize_text(last.text))
    /\ ~DictHas(translation_map, normalize_separators(last.text))

\* the variant key through which the lookup resolved
ResolvedKey ==
    LET cands == AllCandidates(last.text)
    IN  cands[HitIndex(translation_map, lookup_variations, cands)][2]

\* C4: the variant map holds, for each normalized key, the target of the
\* first loaded source key that has it as a variant, and a lookup that resolves
\* through a normalized key returns that target.
C4_FirstLoadedWins ==
    pc = "ready" =>
        /\ DOMAIN lookup_variations =
               UNION {VariantKeys(translation_map[i][1]) :
                         i \in 1..Len(translation_map)}
        /\ \A n \in DOMAIN lookup_variations :
               lookup_variations[n] =
                   translation_map[FirstLoaded(translation_map, n)][2]
        /\ (PastExact /\ HitIndex(translation_map, lookup_variations,
                                  AllCandidates(last.text)) # 0)
               => last.value =
                      translation_map[FirstLoaded(translation_map, ResolvedKey)][2]

\* two keys collide on a normalized key and a lookup resolved through it
C4_Witness ==
    /\ pc = "ready"
    /\ PastExact
    /\ Len(translation_map) = 2
    /\ HitIndex(translation_map, lookup_variations, AllCandidates(last.text)) # 0
    /\ ResolvedKey \in VariantKeys(translation_map[1][1])
                        \cap VariantKeys(translation_map[2][1])
    /\ last.value = translation_map[1][2]

----------------------------------------------------------------------------
(* load_translations and the merge of the two tables in main() and           *)
(* rename_mode().  A row is <<cell of column en, cell of the language>>.    *)

\* the body of the loop over the rows, without the test for an identical cell
load_row_keep_identical(table, row) ==
    LET source == strip(row[1])
        target == strip(row[2])
    IN  IF source # <<>> /\ target # <<>>
        THEN DictPut(table, source, target)
        ELSE table

\* the body of the loop over the rows of the file
load_row(table, row) ==
    LET source == strip(row[1])
        target == strip(row[2])
    IN  IF source # <<>> /\ target # <<>> /\ source # target
        THEN DictPut(table, source, target)
        ELSE table

\* cells of the translation files of the load specification
SourceCells == {<<>>, <<"a">>, <<" ", "a">>, <<"A">>}
TargetCells == {<<>>, <<"a">>, <<"a", " ">>, <<"x">>, <<"y">>}
LoadTexts == {<<"a">>, <<"A">>, <<"x">>}

RowsRead == Len(csv_rows.short) + Len(csv_rows.long)

InitLoad ==
    /\ pc = "short"
    /\ csv_rows = NoRows
    /\ translations = <<>>
    /\ long_translations = <<>>
    /\ translation_map = <<>>
    /\ lookup_variations = EmptyMap
    /\ missing_translations = {}
    /\ output = <<>>
    /\ skip_level = 0
    /\ labels = <<>>
    /\ last = NoCall
    /\ RenameIdle

\* one row of translations.csv
ReadShortRow ==
    /\ pc = "short"
    /\ RowsRead < MaxRows
    /\ \E source \in SourceCells, target \in TargetCells :
          /\ csv_rows' = [csv_rows EXCEPT !.short = Append(@, <<source, target>>)]
          /\ translations' = load_row(translations, <<source, target>>)
    /\ UNCHANGED <<otherVars, pc, long_translations, translation_map, lookup_variations,
                   missing_translations, output, skip_level, last>>

\* translations.csv is read to its end
EndShort ==
    /\ pc = "short"
    /\ pc' = "long"
    /\ UNCHANGED <<otherVars, csv_rows, translations, long_translations, translation_map,
                   lookup_variations, missing_translations, output, skip_level,
                   last>>

\* one row of long_translations.csv
ReadLongRow ==
    /\ pc = "long"
    /\ RowsRead < MaxRows
    /\ \E source \in SourceCells, target \in TargetCells :
          /\ csv_rows' = [csv_rows EXCEPT !.long = Append(@, <<source, target>>)]
          /\ long_translations' = load_row(long_translations, <<source, target>>)
    /\ UNCHANGED <<otherVars, pc, translations, translation_map, lookup_variations,
                   missing_translations, output, skip_level, last>>

\* all_translations = {**translations, **long_translations}; the run ends with
\* status 1 when it is empty
Merge ==
    /\ pc = "long"
    /\ translation_map' = DictMerge(translations, long_translations)
    /\ pc' = IF translation_map' = <<>> THEN "exit1" ELSE "loaded"
    /\ UNCHANGED <<otherVars, csv_rows, translations, long_translations, lookup_variations,
                   missing_translations, output, skip_level, last>>

LookupLoadedText ==
    /\ missing_translations = {}
    /\ \E text \in LoadTexts : TranslateText(text)

NextLoad ==
    ReadShortRow \/ EndShort \/ ReadLongRow \/ Merge \/ Construct \/ LookupLoadedText

SpecLoad == InitLoad /\ [][NextLoad]_vars

AllRows == csv_rows.short \o csv_rows.long

\* the row is a translation: neither cell is empty and they differ
Usable(row) ==
    /\ strip(row[1]) # <<>>
    /\ strip(row[2]) # <<>>
    /\ strip(row[1]) # strip(row[2])

\* the first row that translates the source text of row i
FirstOccurrence(i) ==
    CHOOSE j \in 1..Len(AllRows) :
        /\ Usable(AllRows[j])
        /\ strip(AllRows[j][1]) = strip(AllRows[i][1])
        /\ \A k \in 1..Len(AllRows) :
              (Usable(AllRows[k]) /\ strip(AllRows[k][1]) = strip(AllRows[i][1]))
                  => j <= k

Merged == pc \in {"loaded", "ready"}

\* C5: a source text that occurs in several rows (of one file, or of the short
\* and the long file) is mapped by the merged table to the target of its
\* first occurrence.
C5_FirstOccurrenceWins ==
    Merged =>
        \A i \in 1..Len(AllRows) :
            Usable(AllRows[i]) =>
                DictGet(translation_map, strip(AllRows[i][1]))
                    = strip(AllRows[FirstOccurrence(i)][2])

NoUntranslatedEntry(table) ==
    \A i \in 1..Len(table) : table[i][2] # <<>> /\ table[i][2] # table[i][1]

\* C6: no loaded table has an entry whose target is empty or equal to its
\* source, and every value a lookup substitutes is the target of a row that
\* is a translation.
C6_NoUntranslatedEntry ==
    /\ NoUntranslatedEntry(translations)
    /\ NoUntranslatedEntry(long_translations)
    /\ NoUntranslatedEntry(translation_map)
    /\ \A i \in 1..Len(translation_map) :
          \E j \in 1..Len(AllRows) :
              /\ Usable(AllRows[j])
              /\ translation_map[i] = <<strip(AllRows[j][1]), strip(AllRows[j][2])>>
    /\ (Looked /\ last.value # last.text)
          => \E j \in 1..Len(AllRows) :
                 Usable(AllRows[j]) /\ last.value = strip(AllRows[j][2])

\* a row whose target equals its source after stripping was read, and its
\* source text was looked up
C6_Witness ==
    /\ Looked
    /\ \E j \in 1..Len(AllRows) :
          /\ strip(AllRows[j][1]) = last.text
          /\ AllRows[j][2] # AllRows[j][1]
          /\ strip(AllRows[j][2]) = strip(AllRows[j][1])
    /\ ~DictHas(translation_map, last.text)
    /\ last.value # last.text

----------------------------------------------------------------------------
(* The markup walker.  A token is what html.parser hands to one handler:    *)
(* kind, tag, attrs (pairs <<name, value>>), data, and for a start tag or a *)
(* self-closing tag whether its source text, get_starttag_text(), is the    *)
(* text the handler would rebuild ("canonical") or differs from it in       *)
(* quotes, case or spacing ("other").  A piece of output is a token.        *)

TRANSLATABLE_ATTRS ==
    {"alt", "title", "placeholder", "aria-label", "aria-describedby",
     "aria-placeholder", "data-location", "data-city"}

SKIP_TAGS == {"script", "style"}

Description == <<"d", "e", "s", "c", "r", "i", "p", "t", "i", "o", "n">>

\* the value the parser gives for an attribute written without a value
None == <<"None">>

\* f'{value}' of an attribute value
format_value(value) == IF value = None THEN <<"N", "o", "n", "e">> ELSE value

\* dict(attrs).get(name): the last attribute of that name, <<>> without one
AttrGet(attrs, name) ==
    LET at == {i \in 1..Len(attrs) : attrs[i][1] = name}
    IN  IF at = {} THEN <<>>
        ELSE attrs[CHOOSE i \in at : \A j \in at : i >= j][2]

\* attrs_list.append((attr_name, attr_value)) with the value a lookup
\* returned: r is its result, looked the texts it was asked for
translated_attr(attr_name, r, looked) ==
    [attr |-> <<attr_name, r.value>>, missing |-> r.missing, looked |-> looked]

\* the same for a link: _translate_url tells the texts it looked up
translated_href(attr_name, r) ==
    [attr |-> <<attr_name, r.value>>, missing |-> r.missing, looked |-> r.looked]

\* the body of the loop over the attributes of a start tag: the attribute
\* as it is emitted, the missing set and the texts looked up
starttag_attr(tm, lv, tag, all, missing, attr) ==
    LET attr_name == attr[1]
        attr_value == attr[2]
    IN  IF attr_name \in TRANSLATABLE_ATTRS /\ attr_value \notin {<<>>, None}
        THEN translated_attr(attr_name,
                             translate_text(tm, lv, missing, attr_value),
                             {attr_value})
        ELSE IF attr_name = "href" /\ tag = "a"
        THEN translated_href(attr_name, translate_url(tm, lv, missing, attr_value))
        ELSE IF /\ attr_name = "content" /\ tag = "meta"
                /\ AttrGet(all, "name") = Description
        THEN translated_attr(attr_name,
                             translate_text(tm, lv, missing, attr_value),
                             {attr_value})
        ELSE [attr |-> attr, missing |-> missing, looked |-> {}]

\* acc after one pass of the loop; r is the result of its body
append_attr(acc, r) ==
    [attrs |-> Append(acc.attrs, r.attr),
     missing |-> r.missing,
     looked |-> acc.looked \cup r.looked]

\* the loop over the attributes of a start tag; acc is [attrs, missing, looked]
RECURSIVE starttag_attrs(_, _, _, _, _, _)
starttag_attrs(tm, lv, tag, all, rest, acc) ==
    IF rest = <<>> THEN acc
    ELSE starttag_attrs(tm, lv, tag, all, Tail(rest),
             append_attr(acc,
                         starttag_attr(tm, lv, tag, all, acc.missing, rest[1])))

\* the loop over the attributes of a self-closing tag
RECURSIVE startendtag_attrs(_, _, _, _)
startendtag_attrs(tm, lv, rest, acc) ==
    IF rest = <<>> THEN acc
    ELSE LET attr_name == rest[1][1]
             attr_value == rest[1][2]
         IN  IF attr_name \in TRANSLATABLE_ATTRS /\ attr_value \notin {<<>>, None}
             THEN startendtag_attrs(tm, lv, Tail(rest),
                      append_attr(acc,
                          translated_attr(attr_name,
                              translate_text(tm, lv, acc.missing, attr_value),
                              {attr_value})))
             ELSE startendtag_attrs(tm, lv, Tail(rest),
                          [acc EXCEPT !.attrs = Append(@, rest[1])])

\* A walker w is [output, skip_level, missing]; a handler returns the walker
\* after the call and the texts it passed to _translate_text (looked).

Emit(w, piece) ==
    [output |-> Append(w.output, piece), skip_level |-> w.skip_level,
     missing |-> w.missing, looked |-> {}]

\* the tag is rebuilt from the attributes t.attrs the loop has left
EmitTag(w, tok, t) ==
    [output |-> Append(w.output,
                       [tok EXCEPT !.attrs = [i \in 1..Len(t.attrs) |->
                                                 <<t.attrs[i][1],
                                                   format_value(t.attrs[i][2])>>],
                                   !.raw = "canonical"]),
     skip_level |-> w.skip_level,
     missing |-> t.missing,
     looked |-> t.looked]

handle_starttag(tm, lv, w, tok) ==
    IF tok.tag \in SKIP_TAGS
    THEN [Emit(w, tok) EXCEPT !.skip_level = w.skip_level + 1]
    ELSE IF w.skip_level > 0
    THEN Emit(w, tok)
    ELSE EmitTag(w, tok,
                 starttag_attrs(tm, lv, tok.tag, tok.attrs, tok.attrs,
                                [attrs |-> <<>>, missing |-> w.missing,
                                 looked |-> {}]))

handle_endtag(tm, lv, w, tok) ==
    [Emit(w, tok) EXCEPT
        !.skip_level = IF tok.tag \in SKIP_TAGS
                       THEN (IF w.skip_level - 1 > 0 THEN w.skip_level - 1 ELSE 0)
                       ELSE w.skip_level]

handle_startendtag(tm, lv, w, tok) ==
    IF w.skip_level > 0
    THEN Emit(w, tok)
    ELSE EmitTag(w, tok,
                 startendtag_attrs(tm, lv, tok.attrs,
                                   [attrs |-> <<>>, missing |-> w.missing,
                                    looked |-> {}]))

\* a handler that translates text inside a skip region as well
handle_data_no_skip(tm, lv, w, tok) ==
    LET data == tok.data
        stripped == strip(data)
    IN  IF stripped # <<>>
        THEN LET leading_ws == SubSeq(data, 1, Len(data) - Len(lstrip(data)))
                 trailing_ws == SubSeq(data, Len(rstrip(data)) + 1, Len(data))
                 r == translate_text(tm, lv, w.missing, stripped)
             IN  [output |-> Append(w.output,
                        [tok EXCEPT !.data = leading_ws \o r.value \o trailing_ws]),
                  skip_level |-> w.skip_level,
                  missing |-> r.missing,
                  looked |-> {stripped}]
        ELSE Emit(w, tok)

handle_data(tm, lv, w, tok) ==
    IF w.skip_level > 0
    THEN Emit(w, tok)
    ELSE LET data == tok.data
             stripped == strip(data)
         IN  IF stripped # <<>>
             THEN LET leading_ws == SubSeq(data, 1, Len(data) - Len(lstrip(data)))
                      trailing_ws == SubSeq(data, Len(rstrip(data)) + 1, Len(data))
                      r == translate_text(tm, lv, w.missing, stripped)
                  IN  [output |-> Append(w.output,
                             [tok EXCEPT !.data = leading_ws \o r.value \o trailing_ws]),
                       skip_level |-> w.skip_level,
                       missing |-> r.missing,
                       looked |-> {stripped}]
             ELSE Emit(w, tok)

handle_comment(tm, lv, w, tok) == Emit(w, tok)

\* HTMLParser.feed for one token: the handler of its kind
feed_token(tm, lv, w, tok) ==
    CASE tok.kind = "starttag" -> handle_starttag(tm, lv, w, tok)
      [] tok.kind = "endtag" -> handle_endtag(tm, lv, w, tok)
      [] tok.kind = "startendtag" -> handle_startendtag(tm, lv, w, tok)
      [] tok.kind = "data" -> handle_data(tm, lv, w, tok)
      [] tok.kind = "comment" -> handle_comment(tm, lv, w, tok)

NewWalker == [output |-> <<>>, skip_level |-> 0, missing |-> {}]

\* translate_html_file: a new TranslationReplacer is fed the tokens
RECURSIVE feed(_, _, _, _)
feed(tm, lv, w, toks) ==
    IF toks = <<>> THEN w
    ELSE LET r == feed_token(tm, lv, w, Head(toks))
         IN  feed(tm, lv,
                  [output |-> r.output, skip_level |-> r.skip_level,
                   missing |-> r.missing],
                  Tail(toks))

----------------------------------------------------------------------------
(* Specification SpecWalker: a TranslationReplacer is fed up to MaxTokens   *)
(* tokens                                                                    *)

Token(kind, tag, attrs, data, raw) ==
    [kind |-> kind, tag |-> tag, attrs |-> attrs, data |-> data, raw |-> raw]

DataTokens ==
    {Token("data", "", <<>>, d, "canonical") :
        d \in {<<"a">>, <<"A">>, <<"b">>, <<" ", "a", " ">>, <<" ">>}}

StartTokens ==
    {Token("starttag", "script", <<>>, <<>>, "canonical"),
     Token("starttag", "style", <<>>, <<>>, "canonical"),
     Token("starttag", "p", <<>>, <<>>, "canonical"),
     Token("starttag", "p", << <<"title", <<"a">>>> >>, <<>>, "other"),
     Token("starttag", "p", << <<"hidden", None>> >>, <<>>, "other")}

EndTokens ==
    {Token("endtag", t, <<>>, <<>>, "canonical") : t \in {"script", "style", "p"}}

StartEndTokens ==
    {Token("startendtag", "img", << <<"alt", <<"a">>>> >>, <<>>, "other")}

CommentTokens == {Token("comment", "", <<>>, <<"a">>, "canonical")}

WalkRows ==
    {<< <<"a">>, <<"B">> >>, << <<"a">>, <<"c">> >>,
     << <<"b">>, <<"c">> >>, << <<"b">>, <<"A">> >>}

\* tables of one row and of two rows with different source texts
WalkTables ==
    {<<r>> : r \in WalkRows}
    \cup {<<p[1], p[2]>> : p \in {q \in WalkRows \X WalkRows : q[1][1] # q[2][1]}}

InitWalker ==
    /\ pc = "loaded"
    /\ csv_rows = NoRows
    /\ translations = <<>>
    /\ long_translations = <<>>
    /\ translation_map \in WalkTables
    /\ lookup_variations = EmptyMap
    /\ missing_translations = {}
    /\ output = <<>>
    /\ skip_level = 0
    /\ labels = <<>>
    /\ last = NoCall
    /\ RenameIdle

\* the tag that opened the skip region the walker is in
Opener == IF last.op = "feed" THEN last.opener ELSE ""

\* the parser hands one token to its handler
Handle(tok) ==
    /\ pc = "ready"
    /\ Len(output) < MaxTokens
    /\ \E r \in {feed_token(translation_map, lookup_variations,
                            [output |-> output, skip_level |-> skip_level,
                             missing |-> missing_translations], tok)} :
           /\ output' = r.output
           /\ skip_level' = r.skip_level
           /\ missing_translations' = r.missing
           /\ last' = [op |-> "feed", tok |-> tok, skip_before |-> skip_level,
                       len_before |-> Len(output),
                       missing_before |-> missing_translations,
                       looked |-> r.looked,
                       opener_before |-> Opener,
                       opener |-> IF r.skip_level = 0 THEN ""
                                  ELSE IF skip_level = 0 THEN tok.tag
                                  ELSE Opener]
    /\ UNCHANGED <<otherVars, pc, csv_rows, translations, long_translations, translation_map,
                   lookup_variations>>

HandleStartTag ==
    /\ pc = "ready"
    /\ \E tok \in StartTokens : Handle(tok)

HandleEndTag ==
    /\ pc = "ready"
    /\ \E tok \in EndTokens : Handle(tok)

HandleStartEndTag ==
    /\ pc = "ready"
    /\ \E tok \in StartEndTokens : Handle(tok)

\* the parser hands over the text between two tags in one call
HandleData ==
    /\ ~(last.op = "feed" /\ last.tok.kind = "data")
    /\ \E tok \in DataTokens : Handle(tok)

HandleComment ==
    /\ pc = "ready"
    /\ \E tok \in CommentTokens : Handle(tok)

NextWalker ==
    \/ Construct
    \/ HandleStartTag
    \/ HandleEndTag
    \/ HandleStartEndTag
    \/ HandleData
    \/ HandleComment

SpecWalker == InitWalker /\ [][NextWalker]_vars

Fed == last.op = "feed"

\* the output of a second run over the output of the first
SecondRun == feed(translation_map, lookup_variations, NewWalker, output).output

\* no target text of the table is a source text of the table
TargetsAreNoKeys ==
    \A i \in 1..Len(translation_map) :
        ~DictHas(translation_map, translation_map[i][2])

\* C7: with a table in which no target text is a source key, a second run of
\* the content translation over the output of the first run changes nothing.
C7_IdempotentNoKeyTargets ==
    (pc = "ready" /\ TargetsAreNoKeys) => SecondRun = output

\* C26: a token for which no text that was looked up has a table entry goes to
\* the output as it was read, a start tag with an attribute without a value
\* included.
C26_UnmatchedTokenVerbatim ==
    (Fed /\ last.skip_before = 0 /\ last.looked \subseteq missing_translations) =>
        output[Len(output)] = last.tok

----------------------------------------------------------------------------
(* rewrite_links.py: the href of one <a> element *)

SkippedPrefixes == {HttpPrefix, HttpsPrefix, MailtoPrefix, TelPrefix}

should_skip_href(href) ==
    LET h == strip(href)
    IN  \/ h = <<>>
        \/ StartsWithAny(h, SkippedPrefixes)
        \/ StartsWith(h, <<"#">>)
        \/ StartsWith(h, <<"/">>)

\* labels.get(key), <<>> without an entry
LabelGet(lb, key) == IF DictHas(lb, key) THEN DictGet(lb, key) ELSE <<>>

map_segment(segment, lb) ==
    IF segment = <<>> \/ segment = <<".">> \/ segment = <<".", ".">>
    THEN segment
    ELSE IF "." \in {segment[i] : i \in 1..Len(segment)}
    THEN LET base == rsplit1(segment, ".")[1]
             ext == rsplit1(segment, ".")[2]
             qid == LabelGet(lb, lower(strip(base)))
         IN  IF qid # <<>> THEN qid \o <<".">> \o ext ELSE segment
    ELSE LET qid == LabelGet(lb, lower(strip(segment)))
         IN  IF qid # <<>> THEN qid ELSE segment

\* s.partition(c): <<before, separator, after>>
partition(s, c) ==
    LET i == FirstIn(s, {c})
    IN  IF i = 0 THEN <<s, <<>>, <<>>>>
        ELSE <<SubSeq(s, 1, i - 1), <<c>>, SubSeq(s, i + 1, Len(s))>>

rewrite_href(href, lb) ==
    LET path_part == partition(href, "?")[1]
        sep == partition(href, "?")[2]
        tail == partition(href, "?")[3]
        path_only == partition(path_part, "#")[1]
        fragment == partition(path_part, "#")[3]
        segments == split(path_only, "/")
        new_segments == [i \in 1..Len(segments) |-> map_segment(segments[i], lb)]
        new_path == join(new_segments, "/")
        with_fragment == IF fragment # <<>> THEN new_path \o <<"#">> \o fragment
                         ELSE new_path
        rebuilt == IF sep # <<>> THEN with_fragment \o <<"?">> \o tail
                   ELSE with_fragment
    IN  [value |-> rebuilt, changed |-> rebuilt # href]

\* the body of the loop of process_file: the href the element has afterwards
process_href(href, lb) ==
    IF should_skip_href(href) THEN href
    ELSE LET r == rewrite_href(href, lb)
         IN  IF r.changed THEN r.value ELSE href

----------------------------------------------------------------------------
(* Specification SpecLinks: an href passes through one of the two link      *)
(* rewriters                                                                 *)

FtpPrefix == <<"f", "t", "p", ":", "/", "/">>

HrefPrefixes ==
    {<<>>, <<"/">>, <<"/", "/">>, <<".", "/">>, <<".", ".", "/">>, <<"#">>,
     HttpPrefix, HttpsPrefix, MailtoPrefix, TelPrefix, FtpPrefix}

HrefPaths ==
    {<<>>, <<"p">>, <<"p", ".", "h">>, <<"P", ".", "h">>,
     <<"d", "/", "p", ".", "h">>}

HrefTails ==
    {<<>>, <<"#">>, <<"#", "p">>, <<"?", "p">>, <<"#", "p", "?", "p">>}

Hrefs == {h[1] \o h[2] \o h[3] : h \in HrefPrefixes \X HrefPaths \X HrefTails}

\* translation tables and identifier tables of the link specification
LinkTables ==
    {<< << <<"p">>, <<"x">> >> >>,
     << << <<"p">>, <<"x">> >>, << <<"d">>, <<"y">> >> >>}

LabelTables ==
    {<< << <<"p">>, <<"Q", "9">> >> >>,
     << << <<"p">>, <<"Q", "9">> >>, << <<"d">>, <<"Q", "7">> >> >>}

InitLinks ==
    /\ pc = "loaded"
    /\ csv_rows = NoRows
    /\ translations = <<>>
    /\ long_translations = <<>>
    /\ translation_map \in LinkTables
    /\ lookup_variations = EmptyMap
    /\ missing_translations = {}
    /\ output = <<>>
    /\ skip_level = 0
    /\ labels \in LabelTables
    /\ last = NoCall
    /\ RenameIdle

\* translate_html_files: the href of an <a> start tag goes through
\* _translate_url
TranslateHref ==
    /\ pc = "ready"
    /\ pc' = "rewritten"
    /\ \E url \in Hrefs :
          LET r == translate_url(translation_map, lookup_variations, {}, url)
          IN  /\ missing_translations' = r.missing
              /\ last' = [op |-> "translate_url", href |-> url, value |-> r.value]
    /\ UNCHANGED <<csv_rows, translations, long_translations, translation_map,
                   lookup_variations, output, skip_level, labels, renameVars>>

\* rewrite_links: process_file handles one <a href>
RewriteHref ==
    /\ pc = "ready"
    /\ pc' = "rewritten"
    /\ \E href \in Hrefs :
          last' = [op |-> "process_href", href |-> href,
                   value |-> process_href(href, labels)]
    /\ UNCHANGED <<csv_rows, translations, long_translations, translation_map,
                   lookup_variations, missing_translations, output, skip_level,
                   labels, renameVars>>

NextLinks == Construct \/ TranslateHref \/ RewriteHref

SpecLinks == InitLinks /\ [][NextLinks]_vars

SchemeChars ==
    {"a", "c", "e", "f", "h", "i", "j", "l", "m", "o", "p", "r", "s", "t", "v"}

\* the href begins with a URI scheme
HasScheme(h) ==
    LET i == FirstIn(h, {":"})
    IN  i > 1 /\ \A j \in 1..(i - 1) : h[j] \in SchemeChars

\* absolute-rooted, external, mailto: or tel:, or fragment-only
IsProtectedHref(h) ==
    \/ StartsWith(h, <<"/">>)
    \/ HasScheme(h)
    \/ StartsWith(h, <<"#">>)

Rewritten == last.op \in {"translate_url", "process_href"}

\* C10: an href that is absolute-rooted, external (has a URI scheme), a
\* mailto: or tel: link, or fragment-only leaves both link rewriters as it
\* entered them.
C10_ProtectedHrefUntouched ==
    (Rewritten /\ IsProtectedHref(last.href)) => last.value = last.href

\* the part of an href from the first '#' or '?' to its end
TailOf(h) ==
    LET cut == FirstIn(h, {"#", "?"})
    IN  IF cut = 0 THEN <<>> ELSE SubSeq(h, cut, Len(h))

\* C11: the part of an internal href from the first '#' or '?' to the end is
\* the same after either link rewriter as before it, an empty fragment and a
\* fragment followed by '?' included.
C11_TailPreserved ==
    (Rewritten /\ ~IsProtectedHref(last.href)) =>
        TailOf(last.value) = TailOf(last.href)

----------------------------------------------------------------------------
(* rename_files.py and the identifier tables.  A row of labels.csv or       *)
(* concepts.csv is [identifier, en, fr]: the cells of the columns           *)
(* "identifier" and "en" and of one further language column.                *)

Row(identifier, en, fr) == [identifier |-> identifier, en |-> en, fr |-> fr]

\* norm_row: every cell stripped
norm_row(row) == Row(strip(row.identifier), strip(row.en), strip(row.fr))

\* str.casefold(), which is lower() on the characters of the model
casefold(s) == lower(s)

\* dict.setdefault(k, v): an existing key keeps its value
DictSetDefault(d, k, v) == IF DictHas(d, k) THEN d ELSE Append(d, <<k, v>>)

\* load_csv_as_maps: by_id keeps the last row of an identifier, by_en the
\* first row of a case-folded en label
RECURSIVE load_csv_as_maps(_, _)
load_csv_as_maps(rows, acc) ==
    IF rows = <<>> THEN acc
    ELSE LET r == norm_row(Head(rows))
         IN  load_csv_as_maps(Tail(rows),
                 [by_id |-> IF r.identifier # <<>>
                            THEN DictPut(acc.by_id, r.identifier, r)
                            ELSE acc.by_id,
                  by_en |-> IF r.en # <<>>
                            THEN DictSetDefault(acc.by_en, casefold(r.en), r)
                            ELSE acc.by_en])

NoMaps == [by_id |-> <<>>, by_en |-> <<>>]

\* rewrite_links.load_labels: lower(en) -> identifier, the last row wins
RECURSIVE load_labels(_, _)
load_labels(rows, mapping) ==
    IF rows = <<>> THEN mapping
    ELSE LET en == strip(Head(rows).en)
             identifier == strip(Head(rows).identifier)
         IN  load_labels(Tail(rows),
                         IF en = <<>> \/ identifier = <<>> THEN mapping
                         ELSE DictPut(mapping, lower(en), identifier))

Digits == {"0", "1", "2", "3", "4", "5", "6", "7", "8", "9"}

\* QID_RE.match(s): ^Q[1-9][0-9]*$
QID_RE(s) ==
    /\ Len(s) >= 2
    /\ s[1] = "Q"
    /\ s[2] \in Digits \ {"0"}
    /\ \A i \in 3..Len(s) : s[i] \in Digits

\* row.get(lang, ""): the label of the row in the language of the run
RowLabel(row, lang) ==
    CASE lang = "en" -> row.en
      [] lang = "fr" -> row.fr
      [] OTHER -> <<>>

\* a.get(k) or b.get(k): <<>> stands for None
GetOr(a, b, k) ==
    IF DictHas(a, k) THEN <<DictGet(a, k)>>
    ELSE IF DictHas(b, k) THEN <<DictGet(b, k)>>
    ELSE <<>>

\* handle_wikidata_file and handle_wikidata_dir up to the new name: what is
\* decided for the concept, and the identifier it is renamed to
wikidata_name(concept, labels_en, concepts_en) ==
    LET row == GetOr(labels_en, concepts_en, casefold(strip(concept)))
    IN  IF row = <<>> THEN [verdict |-> "MISSING CONCEPT", name |-> <<>>]
        ELSE IF strip(row[1].identifier) = <<>>
        THEN [verdict |-> "INVALID ROW", name |-> <<>>]
        ELSE [verdict |-> "RENAME", name |-> strip(row[1].identifier)]

\* handle_non_wikidata_file without the test of the name against QID_RE
non_wikidata_name_any_name(name, lang, labels_id, concepts_id) ==
    LET row == GetOr(labels_id, concepts_id, name)
    IN  IF row = <<>> THEN [verdict |-> "MISSING ID", name |-> <<>>]
        ELSE IF strip(RowLabel(row[1], lang)) = <<>>
        THEN [verdict |-> "MISSING LABEL", name |-> <<>>]
        ELSE [verdict |-> "RENAME", name |-> strip(RowLabel(row[1], lang))]

\* handle_non_wikidata_file and handle_non_wikidata_dir up to the new name
non_wikidata_name(name, lang, labels_id, concepts_id) ==
    IF ~QID_RE(name) THEN [verdict |-> "TRANSLATED", name |-> <<>>]
    ELSE LET row == GetOr(labels_id, concepts_id, name)
         IN  IF row = <<>> THEN [verdict |-> "MISSING ID", name |-> <<>>]
             ELSE IF strip(RowLabel(row[1], lang)) = <<>>
             THEN [verdict |-> "MISSING LABEL", name |-> <<>>]
             ELSE [verdict |-> "RENAME", name |-> strip(RowLabel(row[1], lang))]

\* load_existing_missing: the rows of missing.csv, stripped and case-folded
load_existing_missing(rows) ==
    {casefold(strip(rows[i])) : i \in {j \in 1..Len(rows) : strip(rows[j]) # <<>>}}

\* add_missing_concept without the test of the key against the entries read
add_missing_concept_no_dedup(concept, m) ==
    IF \/ strip(concept) = <<>>
       \/ QID_RE(strip(concept))
    THEN m
    ELSE [rows |-> Append(m.rows, strip(concept)),
          existing |-> m.existing \cup {casefold(strip(concept))}]

\* add_missing_concept: m is [rows, existing], the file and the set of the run
add_missing_concept(concept, m) ==
    IF \/ strip(concept) = <<>>
       \/ QID_RE(strip(concept))
       \/ casefold(strip(concept)) \in m.existing
    THEN m
    ELSE [rows |-> Append(m.rows, strip(concept)),
          existing |-> m.existing \cup {casefold(strip(concept))}]

\* new_path.exists(): an entry of that kind and name is in the directory
Exists(tr, kind, name) ==
    IF kind = "file" THEN name \in tr.files ELSE name \in tr.dirs

\* path.rename(new_path)
Rename(tr, kind, from, to) ==
    IF kind = "file"
    THEN [tr EXCEPT !.files = (@ \ {from}) \cup {to}]
    ELSE [tr EXCEPT !.dirs = (@ \ {from}) \cup {to}]

Message(rn, tag, e, to) ==
    [n |-> rn.n, lang |-> rn.lang, tag |-> tag, kind |-> e.kind, from |-> e.name,
     to |-> to]

\* the first half of a handler: the new name of the entry e
new_name(e, rn, mp) ==
    IF rn.lang = "wikidata"
    THEN wikidata_name(e.name, mp.labels.by_en, mp.concepts.by_en)
    ELSE non_wikidata_name(e.name, rn.lang, mp.labels.by_id, mp.concepts.by_id)

\* the second half of a handler without the test new_path.exists()
handle_path_overwrite(e, d, rn, tr, rows) ==
    CASE d.verdict = "TRANSLATED" ->
            [tree |-> tr, printed |-> {},
             missing |-> [rows |-> rows, existing |-> rn.existing]]
      [] d.verdict = "MISSING CONCEPT" ->
            [tree |-> tr, printed |-> {Message(rn, "MISSING CONCEPT", e, <<>>)},
             missing |-> add_missing_concept(e.name,
                             [rows |-> rows, existing |-> rn.existing])]
      [] d.verdict \in {"INVALID ROW", "MISSING ID", "MISSING LABEL"} ->
            [tree |-> tr, printed |-> {Message(rn, d.verdict, e, <<>>)},
             missing |-> [rows |-> rows, existing |-> rn.existing]]
      [] d.verdict = "RENAME" /\ d.name = e.name ->
            [tree |-> tr, printed |-> {},
             missing |-> [rows |-> rows, existing |-> rn.existing]]
      [] OTHER ->
            [tree |-> IF rn.dry_run THEN tr ELSE Rename(tr, e.kind, e.name, d.name),
             printed |-> {Message(rn, "RENAME", e, d.name)},
             missing |-> [rows |-> rows, existing |-> rn.existing]]

\* the second half of a handler, d being the new name: the tree, the lines
\* printed and missing.csv after the call
handle_path(e, d, rn, tr, rows) ==
    CASE d.verdict = "TRANSLATED" ->
            [tree |-> tr, printed |-> {},
             missing |-> [rows |-> rows, existing |-> rn.existing]]
      [] d.verdict = "MISSING CONCEPT" ->
            [tree |-> tr, printed |-> {Message(rn, "MISSING CONCEPT", e, <<>>)},
             missing |-> add_missing_concept(e.name,
                             [rows |-> rows, existing |-> rn.existing])]
      [] d.verdict \in {"INVALID ROW", "MISSING ID", "MISSING LABEL"} ->
            [tree |-> tr, printed |-> {Message(rn, d.verdict, e, <<>>)},
             missing |-> [rows |-> rows, existing |-> rn.existing]]
      [] d.verdict = "RENAME" /\ d.name = e.name ->
            [tree |-> tr, printed |-> {},
             missing |-> [rows |-> rows, existing |-> rn.existing]]
      [] d.verdict = "RENAME" /\ d.name # e.name /\ Exists(tr, e.kind, d.name) ->
            [tree |-> tr, printed |-> {Message(rn, "SKIP COLLISION", e, d.name)},
             missing |-> [rows |-> rows, existing |-> rn.existing]]
      [] OTHER ->
            [tree |-> IF rn.dry_run THEN tr ELSE Rename(tr, e.kind, e.name, d.name),
             printed |-> {Message(rn, "RENAME", e, d.name)},
             missing |-> [rows |-> rows, existing |-> rn.existing]]

----------------------------------------------------------------------------
(* find_missing_info.py: the labels of missing.csv are resolved to           *)
(* identifiers and appended to labels.csv.  A choice is what the search, the *)
(* user and the entity data give for one label: [qid, en, fr], qid <<>> when *)
(* the search failed or the user chose none, en and fr <<>> when the entity  *)
(* has no such label or could not be fetched.                                *)

\* load_existing_labels: the lowered en labels of labels.csv
load_existing_labels(rows) ==
    {lower(strip(rows[i].en)) : i \in {j \in 1..Len(rows) : strip(rows[j].en) # <<>>}}

\* str.isdigit() on the characters of the model
isdigit(s) == s # <<>> /\ \A i \in 1..Len(s) : s[i] \in Digits

\* the test of choose_qid_interactively and of main() on what the user typed
accepts_qid(user_input) ==
    /\ user_input # <<>>
    /\ user_input[1] = "Q"
    /\ isdigit(Tail(user_input))

\* the test with the pattern of rename_files in its place
accepts_qid_re(user_input) == QID_RE(user_input)

\* the body of the loop of main() over missing.csv for the row at i; acc is
\* [existing, new_rows, unresolved, resolved]
resolve_row(row, c, acc) ==
    LET label_en == strip(row)
    IN  IF label_en = <<>> \/ lower(label_en) \in acc.existing THEN acc
        ELSE IF c.qid = <<>>
        THEN [acc EXCEPT !.unresolved = Append(@, row)]
        ELSE LET en == IF c.en = <<>> THEN label_en ELSE c.en
             IN  [existing |-> acc.existing \cup {lower(en)},
                  new_rows |-> Append(acc.new_rows, Row(c.qid, en, c.fr)),
                  unresolved |-> acc.unresolved,
                  resolved |-> acc.resolved \cup {label_en}]

RECURSIVE resolve_rows(_, _, _)
resolve_rows(rows, choices, acc) ==
    IF rows = <<>> THEN acc
    ELSE resolve_rows(Tail(rows), Tail(choices),
                      resolve_row(Head(rows), Head(choices), acc))

\* main(): what is appended to labels.csv and what is left in missing.csv
find_missing_info(labels_rows, missing_rows, choices) ==
    resolve_rows(missing_rows, choices,
                 [existing |-> load_existing_labels(labels_rows),
                  new_rows |-> <<>>, unresolved |-> <<>>, resolved |-> {}])

----------------------------------------------------------------------------
(* Specification SpecRename: rename_files.py runs once or twice over a tree  *)
(* of up to MaxEntries files and one directory, with --recursive and         *)
(* --rename-dirs; after a run of the label->identifier mode, rewrite_links   *)
(* meets a link to an entry that was renamed                                 *)

Html == <<".", "h", "t", "m", "l">>

Q9 == <<"Q", "9">>
Q7 == <<"Q", "7">>

\* labels.csv and concepts.csv: a label with one row, with two rows, only in
\* concepts.csv, in another letter case, a row without identifier, an
\* identifier with two rows, a label that reads as an identifier, an
\* identifier that does not read as one
IdentifierTables ==
    {<< <<Row(Q9, <<"p">>, <<"f">>)>>, <<>> >>,
     << <<Row(Q9, <<"p">>, <<"f">>), Row(Q7, <<"p">>, <<"g">>)>>, <<>> >>,
     << <<>>, <<Row(Q9, <<"p">>, <<"f">>)>> >>,
     << <<Row(Q9, <<" ", "P">>, <<"f">>), Row(Q7, <<"d">>, <<"g">>)>>, <<>> >>,
     << <<Row(Q9, <<"p">>, <<"f">>), Row(Q9, <<"P">>, <<>>)>>, <<>> >>,
     << <<Row(<<>>, <<"p">>, <<"f">>), Row(Q7, <<"p">>, <<"g">>)>>, <<>> >>,
     << <<Row(Q9, <<"p">>, Q7), Row(Q7, <<"d">>, <<"g">>)>>, <<>> >>,
     << <<Row(Q9, <<"p">>, <<"f">>)>>, <<Row(Q7, <<"d">>, <<"f">>)>> >>,
     << <<Row(<<"f">>, <<"p">>, <<"d">>)>>, <<>> >>}

FileStems == {<<"p">>, <<"P">>, <<"f">>, Q9, Q7}

DirNames == {<<"d">>, Q7}

Trees ==
    {[files |-> fs, dirs |-> ds] :
        fs \in {x \in SUBSET FileStems : Cardinality(x) <= MaxEntries},
        ds \in {x \in SUBSET DirNames : Cardinality(x) <= 1}}

InitRename ==
    /\ pc = "start"
    /\ csv_rows = NoRows
    /\ translations = <<>>
    /\ long_translations = <<>>
    /\ translation_map = <<>>
    /\ lookup_variations = EmptyMap
    /\ missing_translations = {}
    /\ output = <<>>
    /\ skip_level = 0
    /\ labels = <<>>
    /\ last = NoCall
    /\ \E t \in IdentifierTables : labels_csv = t[1] /\ concepts_csv = t[2]
    /\ maps = <<>>
    /\ tree \in Trees
    /\ tree0 = tree
    /\ run = [n |-> 0]
    /\ pending = {}
    /\ report = {}
    /\ missing_csv = <<>>
    /\ dest = NoDest

translateVars ==
    <<csv_rows, translations, long_translations, translation_map,
      lookup_variations, missing_translations, output, skip_level>>

\* main() up to the loop over the files: the tables and missing.csv are
\* read and the HTML files are listed.  A second run translates identifiers
\* to labels and follows a first run that was no dry run, or translates
\* labels to identifiers again after find_missing_info.
StartRun(lang, dry_run) ==
    /\ \/ pc = "start"
       \/ pc = "ran" /\ run.n = 1 /\ ~run.dry_run /\ lang # "wikidata" /\ ~dry_run
       \/ pc = "resolved" /\ lang = "wikidata" /\ ~dry_run
    /\ pc' = "files"
    /\ maps' = [labels |-> load_csv_as_maps(labels_csv, NoMaps),
                concepts |-> load_csv_as_maps(concepts_csv, NoMaps)]
    /\ run' = [n |-> run.n + 1, lang |-> lang, dry_run |-> dry_run,
               first |-> IF run.n = 0 THEN lang ELSE run.lang,
               missing0 |-> missing_csv,
               existing |-> load_existing_missing(missing_csv)]
    /\ pending' = {[kind |-> "file", name |-> f] : f \in tree.files}
    /\ UNCHANGED <<translateVars, labels, labels_csv, concepts_csv, tree, tree0,
                   report, missing_csv, dest, last>>

Start == \E lang \in {"wikidata", "en", "fr"}, dry_run \in BOOLEAN : StartRun(lang, dry_run)

\* one pass of a loop of main(): the handler of the entry e
HandlePath(e) ==
    /\ e \in pending
    /\ pending' = pending \ {e}
    /\ \E r \in {handle_path(e, new_name(e, run, maps), run, tree, missing_csv)} :
          /\ tree' = r.tree
          /\ report' = report \cup r.printed
          /\ missing_csv' = r.missing.rows
          /\ run' = [run EXCEPT !.existing = r.missing.existing]
    /\ UNCHANGED <<translateVars, pc, labels, labels_csv, concepts_csv, maps, tree0,
                   dest, last>>

HandleFile ==
    /\ pc = "files"
    /\ \E e \in pending : HandlePath(e)

\* the files are done: the directories are listed
ListDirs ==
    /\ pc = "files"
    /\ pending = {}
    /\ pc' = "dirs"
    /\ pending' = {[kind |-> "dir", name |-> d] : d \in tree.dirs}
    /\ UNCHANGED <<translateVars, labels, labels_csv, concepts_csv, maps, tree, tree0,
                   run, report, missing_csv, dest, last>>

HandleDir ==
    /\ pc = "dirs"
    /\ \E e \in pending : HandlePath(e)

EndRun ==
    /\ pc = "dirs"
    /\ pending = {}
    /\ pc' = "ran"
    /\ UNCHANGED <<translateVars, labels, renameVars, last>>

\* rewrite_links after the label->identifier run: process_file meets a link
\* to an entry that the run has renamed
RewriteLink ==
    /\ pc = "ran"
    /\ run.n = 1
    /\ run.lang = "wikidata"
    /\ pc' = "linked"
    /\ labels' = load_labels(labels_csv, <<>>)
    /\ \E m \in {x \in report : x.tag = "RENAME"} :
          \E suffix \in {IF m.kind = "file" THEN Html ELSE <<>>} :
             last' = [op |-> "link", href |-> m.from \o suffix,
                      renamed |-> m.to \o suffix,
                      value |-> process_href(m.from \o suffix, labels')]
    /\ UNCHANGED <<translateVars, renameVars>>

Q3 == <<"Q", "3">>
Q0 == <<"Q", "0">>

\* what the user may type at the prompt and the loop of the prompt returns
UserInputs == {u \in {<<>>, Q3, Q0} : u = <<>> \/ accepts_qid(u)}

\* the entity has the label itself, another label, or could not be fetched
Choices(row) ==
    {[qid |-> u, en |-> <<>>, fr |-> <<>>] : u \in UserInputs}
    \cup {[qid |-> Q3, en |-> en, fr |-> <<"g">>] : en \in {strip(row), <<"d">>}}

\* one run of find_missing_info after a label->identifier run
Resolve ==
    /\ pc = "ran"
    /\ run.n = 1
    /\ run.lang = "wikidata"
    /\ ~run.dry_run
    /\ pc' = "resolved"
    /\ \E choices \in {c \in [1..Len(missing_csv) -> UNION {Choices(missing_csv[i]) :
                                                     i \in 1..Len(missing_csv)}] :
                          \A i \in 1..Len(missing_csv) : c[i] \in Choices(missing_csv[i])} :
          \E r \in {find_missing_info(labels_csv, missing_csv, choices)} :
             /\ labels_csv' = labels_csv \o r.new_rows
             /\ missing_csv' = r.unresolved
             /\ last' = [op |-> "resolve", before |-> missing_csv,
                         existing |-> load_existing_labels(labels_csv),
                         resolved |-> r.resolved, new_rows |-> r.new_rows]
    /\ UNCHANGED <<translateVars, labels, concepts_csv, maps, tree, tree0, run,
                   pending, report, dest>>

NextRename ==
    \/ Start
    \/ Resolve
    \/ HandleFile
    \/ ListDirs
    \/ HandleDir
    \/ EndRun
    \/ RewriteLink

SpecRename == InitRename /\ [][NextRename]_vars

\* C12: the identifier under which the label->identifier run renames an
\* entry is the identifier that rewrite_links writes for a link to it.
C12_LinkSegmentSymmetry ==
    last.op = "link" => last.value = last.renamed

----------------------------------------------------------------------------
(* Round trip and idempotence of rename_files.py *)

Printed(n, tags) == {m \in report : m.n = n /\ m.tag \in tags}

\* a run has ended and nothing but renames was printed: no collision, and
\* every name had a row with the cell that was needed
CleanRuns ==
    Printed(1, {"SKIP COLLISION", "MISSING CONCEPT", "INVALID ROW", "MISSING ID",
                "MISSING LABEL"}) = {}
    /\ Printed(2, {"SKIP COLLISION", "MISSING CONCEPT", "INVALID ROW", "MISSING ID",
                   "MISSING LABEL"}) = {}

\* the label->identifier run and then the identifier->label run for the
\* language of the en column, which is the column the first run looks up
RoundTripDone ==
    /\ pc = "ran"
    /\ run.n = 2
    /\ run.first = "wikidata"
    /\ run.lang = "en"

\* C14: after label->identifier and identifier->label for the same language,
\* with no collision and a row for every label, every file and directory has
\* the name it had at the start.
C14_RoundTrip ==
    (RoundTripDone /\ CleanRuns) => tree = tree0

\* some label of the column of the language reads as an identifier
IdentifierLabel(lang) ==
    \E rows \in {labels_csv, concepts_csv} :
       \E i \in 1..Len(rows) : QID_RE(strip(RowLabel(rows[i], lang)))

\* two identifier->label runs with the same tables and language
SecondLabelRun ==
    /\ run.n = 2
    /\ run.first = run.lang
    /\ run.lang # "wikidata"

NonIdentifierKept ==
    \A m \in report :
       (m.tag = "RENAME" /\ m.lang # "wikidata") => QID_RE(m.from)

\* C15 as stated: a name that is no identifier is never renamed in
\* identifier->label mode, and a second identifier->label run renames nothing.
C15_SecondRunRenamesNothing ==
    /\ NonIdentifierKept
    /\ SecondLabelRun => Printed(2, {"RENAME"}) = {}

\* C15, amended: a name that is no identifier is never renamed in
\* identifier->label mode, and a second identifier->label run renames nothing
\* when no label of the language reads as an identifier.
C15_SecondRunNoIdentifierLabel ==
    /\ NonIdentifierKept
    /\ (SecondLabelRun /\ ~IdentifierLabel(run.lang)) => Printed(2, {"RENAME"}) = {}

\* a second run has ended after a first one that renamed an identifier, and
\* it has met a name that is no identifier
C15_Witness ==
    /\ pc = "ran"
    /\ SecondLabelRun
    /\ ~IdentifierLabel(run.lang)
    /\ Printed(1, {"RENAME"}) # {}
    /\ \E f \in tree.files : ~QID_RE(f)

\* C16: an entry whose target exists keeps its name, the target stays, the
\* collision is printed and the loop goes on; no file or directory is lost.
C16_CollisionKeepsBoth ==
    /\ Cardinality(tree.files) = Cardinality(tree0.files)
    /\ Cardinality(tree.dirs) = Cardinality(tree0.dirs)
    /\ \A m \in Printed(run.n, {"SKIP COLLISION"}) :
          /\ Exists(tree, m.kind, m.from)
          /\ m.from # m.to
    /\ (pc = "ran") => pending = {}

\* a run has ended after a collision, and an entry handled in the same run
\* was renamed
C16_Witness ==
    /\ pc = "ran"
    /\ Printed(run.n, {"SKIP COLLISION"}) # {}
    /\ Printed(run.n, {"RENAME"}) # {}
    /\ ~run.dry_run

\* C18: a dry run of rename_files leaves the tree and missing.csv as they were.
C18_DryRunWritesNothing ==
    (run.n = 1 /\ run.dry_run) => (tree = tree0 /\ missing_csv = <<>>)

\* C23: a dry run reports the renames a real run performs; two entries of the
\* run with the same target are not both reported as renamed, since the real
\* run renames one and skips the other as a collision.
C23_DryRunDetectsCollision ==
    (run.n = 1 /\ run.dry_run) =>
        \A m1, m2 \in Printed(1, {"RENAME"}) :
           (m1.kind = m2.kind /\ m1.to = m2.to) => m1 = m2

----------------------------------------------------------------------------
(* missing.csv and labels.csv over rename_files and find_missing_info *)

IsPrefix(a, b) == Len(a) <= Len(b) /\ SubSeq(b, 1, Len(a)) = a

Running == pc \in {"files", "dirs", "ran"}

\* C21: a run of rename_files keeps every entry of missing.csv and appends no
\* label that is there already after trimming and case folding; an entry
\* leaves the file in find_missing_info only with an identifier or with its
\* label in labels.csv.
C21_MissingOnlyGrows ==
    /\ Running => IsPrefix(run.missing0, missing_csv)
    /\ \A i, j \in 1..Len(missing_csv) :
          casefold(strip(missing_csv[i])) = casefold(strip(missing_csv[j])) => i = j
    /\ pc = "resolved" =>
          \A i \in 1..Len(last.before) :
             \/ \E j \in 1..Len(missing_csv) : missing_csv[j] = last.before[i]
             \/ strip(last.before[i]) \in last.resolved
             \/ lower(strip(last.before[i])) \in load_existing_labels(labels_csv)

\* a run after find_missing_info has ended: it met a label that was in
\* missing.csv already and appended another one
C21_Witness ==
    /\ pc = "ran"
    /\ run.n = 2
    /\ run.missing0 # <<>>
    /\ Len(missing_csv) > Len(run.missing0)
    /\ \E m \in Printed(2, {"MISSING CONCEPT"}) :
          \E i \in 1..Len(run.missing0) :
             casefold(strip(run.missing0[i])) = casefold(strip(m.from))

\* C27: every name of the label->identifier mode and every identifier that
\* find_missing_info appends to labels.csv matches the identifier format.
C27_IdentifierFormat ==
    /\ \A m \in report : (m.tag = "RENAME" /\ m.lang = "wikidata") => QID_RE(m.to)
    /\ last.op = "resolve" =>
          \A i \in 1..Len(last.new_rows) : QID_RE(last.new_rows[i].identifier)

\* C29: after find_missing_info has resolved a label, labels.csv holds a row
\* whose English label equals it case-insensitively.
C29_ResolvedLabelHasRow ==
    last.op = "resolve" =>
        \A L \in last.resolved :
           \E i \in 1..Len(labels_csv) : lower(strip(labels_csv[i].en)) = lower(L)

----------------------------------------------------------------------------
(* translate_html_files.py: main(), rename_mode() and                        *)
(* rename_path_components().  A path is the sequence of its segments below   *)
(* the directory it is relative to; a translation file is [state, rows],     *)
(* state telling whether the file exists and which columns its header has.   *)

\* load_translations: an empty dict for a file that is absent, has no column
\* of the language or no column en
RECURSIVE load_rows(_, _)
load_rows(rows, table) ==
    IF rows = <<>> THEN table
    ELSE load_rows(Tail(rows), load_row(table, Head(rows)))

load_translations(file) ==
    IF file.state = "rows" THEN load_rows(file.rows, <<>>) ELSE <<>>

\* what load_translations prints for the file
load_warnings(name, file) ==
    IF file.state \in {"absent", "no_en"}
    THEN {[tag |-> "Warning", file |-> name, what |-> file.state]}
    ELSE {}

\* the loop over the directory parts of a path: tm[part] for a part
\* that is a key, the part itself otherwise
translated_dirs(tm, parts) ==
    [i \in 1..Len(parts) |->
        IF DictHas(tm, parts[i]) THEN DictGet(tm, parts[i])
        ELSE parts[i]]

\* the name rename_path_components gives a file
translated_filename(tm, filename) ==
    IF "." \in {filename[i] : i \in 1..Len(filename)}
    THEN LET name_parts == rsplit1(filename, ".")
             basename == name_parts[1]
             extension == name_parts[2]
         IN  IF DictHas(tm, basename)
             THEN IF extension # <<>>
                  THEN DictGet(tm, basename) \o <<".">> \o extension
                  ELSE DictGet(tm, basename)
             ELSE filename
    ELSE IF DictHas(tm, filename) THEN DictGet(tm, filename)
    ELSE filename

Front(path) == SubSeq(path, 1, Len(path) - 1)

\* new_rel_path of a file
new_file_path(tm, rel_path) ==
    Append(translated_dirs(tm, Front(rel_path)),
           translated_filename(tm, rel_path[Len(rel_path)]))

\* old_path.suffix.lower() in ['.html', '.htm']
IsHtml(filename) ==
    /\ "." \in {filename[i] : i \in 1..Len(filename)}
    /\ rsplit1(filename, ".")[1] # <<>>
    /\ lower(rsplit1(filename, ".")[2]) \in {<<"h", "t", "m", "l">>, <<"h", "t", "m">>}

\* mkdir(parents=True, exist_ok=True): the directory and those above it
Prefixes(path) == {SubSeq(path, 1, n) : n \in 0..Len(path)}

mkdir(d, path) == [d EXCEPT !.dirs = @ \cup Prefixes(path)]

\* open(out_path, 'w') and shutil.copy2: the file is there afterwards,
\* whatever was there before
write(d, root, path) ==
    [d EXCEPT !.files = IF root = "out" THEN @ \cup {path} ELSE @,
              !.writes = Append(@, [root |-> root, path |-> path])]

\* translate_html_file: a new TranslationReplacer is fed the file
translate_html_file(translation_map_, toks) ==
    feed(translation_map_, build_variations(EmptyMap, translation_map_),
         NewWalker, toks)

\* sorted(all_missing)[:10]: what the summary of the translation mode lists;
\* the files of the model hold fewer than ten texts
listed_missing(all_missing) ==
    IF Cardinality(all_missing) <= 10 THEN all_missing
    ELSE CHOOSE t \in SUBSET all_missing : Cardinality(t) = 10

----------------------------------------------------------------------------
(* Specification SpecCopy: one run of translate_html_files.py, with --rename *)
(* or in translation mode with --recursive, over a tree of up to MaxEntries  *)
(* files                                                                     *)

Absent == [state |-> "absent", rows |-> <<>>]
NoEnColumn == [state |-> "no_en", rows |-> <<>>]
NoLangColumn == [state |-> "no_lang", rows |-> <<>>]
Rows(rows) == [state |-> "rows", rows |-> rows]

\* translations.csv: absent, without the column en, one row, two rows with
\* the same target, a row for a directory
ShortFiles ==
    {Absent, NoEnColumn,
     Rows(<< <<<<"p">>, <<"x">>>> >>),
     Rows(<< <<<<"p">>, <<"x">>>>, <<<<"q">>, <<"x">>>> >>),
     Rows(<< <<<<"d">>, <<"e">>>> >>)}

\* long_translations.csv
LongFiles == {Absent, NoLangColumn, Rows(<< <<<<"q">>, <<"y">>>> >>)}

File(stem) == <<stem \o Html>>

\* the trees: two pages; a page in another letter case and a file without
\* extension; a page in a directory; a page and a page named as its target
CopyTrees ==
    {[files |-> {File(<<"p">>), File(<<"q">>)}, dirs |-> {}],
     [files |-> {File(<<"P">>), << <<"p">> >>}, dirs |-> {}],
     [files |-> {<< <<"d">>, <<"p">> \o Html >>}, dirs |-> {<< <<"d">> >>}],
     [files |-> {File(<<"p">>), File(<<"x">>)}, dirs |-> {}]}

\* what every page of the tree holds: a text with a translation or without
Pages == {<<Token("data", "", <<>>, d, "canonical")>> : d \in {<<"p">>, <<"z">>}}

\* the output directory before the run: absent, or holding a page
Dests ==
    {NoDest,
     [dirs |-> {<<>>}, files |-> {File(<<"x">>)}, before |-> {File(<<"x">>)},
      writes |-> <<>>]}

InitCopy ==
    /\ pc = "start"
    /\ \E short \in ShortFiles, long \in LongFiles :
          csv_rows = [short |-> short, long |-> long]
    /\ translations = <<>>
    /\ long_translations = <<>>
    /\ translation_map = <<>>
    /\ lookup_variations = EmptyMap
    /\ missing_translations = {}
    /\ output = <<>>
    /\ skip_level = 0
    /\ labels = <<>>
    /\ last = NoCall
    /\ labels_csv = <<>>
    /\ concepts_csv = <<>>
    /\ maps = <<>>
    /\ \E directory \in {"dir", "file", "absent"}, rename \in BOOLEAN,
          output_dir \in BOOLEAN, dry_run \in BOOLEAN, page \in Pages :
          /\ run = [n |-> 1, directory |-> directory, rename |-> rename,
                    output_dir |-> output_dir, dry_run |-> dry_run, page |-> page,
                    all_missing |-> {}]
          /\ IF directory = "dir" THEN tree \in CopyTrees ELSE tree = NoTree
          /\ IF output_dir THEN dest \in Dests ELSE dest = NoDest
    /\ tree0 = NoTree
    /\ pending = {}
    /\ report = {}
    /\ missing_csv = <<>>

\* what no step of translate_html_files.py changes
copyFrame ==
    <<csv_rows, lookup_variations, output, skip_level, labels, labels_csv,
      concepts_csv, maps, tree, tree0, missing_csv>>

\* main(): the input directory is validated
Validate ==
    /\ pc = "start"
    /\ pc' = IF run.directory = "dir" THEN "load" ELSE "exit1"
    /\ UNCHANGED <<copyFrame, translations, long_translations, translation_map,
                   missing_translations, run, pending, report, dest, last>>

\* main() and rename_mode(): the two files are loaded and merged; the run
\* ends with status 1 when there is no translation
LoadTables ==
    /\ pc = "load"
    /\ translations' = load_translations(csv_rows.short)
    /\ long_translations' = load_translations(csv_rows.long)
    /\ translation_map' = DictMerge(translations', long_translations')
    /\ report' = report \cup load_warnings("translations", csv_rows.short)
                        \cup load_warnings("long_translations", csv_rows.long)
    /\ pc' = IF translation_map' = <<>> THEN "exit1" ELSE "loaded"
    /\ UNCHANGED <<copyFrame, missing_translations, run, pending, dest, last>>

\* rename_mode(): the output directory is required; rename_path_components
\* creates it and lists the directories
StartRename ==
    /\ pc = "loaded"
    /\ run.rename
    /\ IF ~run.output_dir
       THEN pc' = "exit1" /\ UNCHANGED <<dest, pending>>
       ELSE /\ pc' = "dirs"
            /\ dest' = IF run.dry_run THEN dest ELSE mkdir(dest, <<>>)
            /\ pending' = tree.dirs
    /\ UNCHANGED <<copyFrame, translations, long_translations, translation_map,
                   missing_translations, run, report, last>>

Deepest(paths) == {x \in paths : \A y \in paths : Len(y) <= Len(x)}
Shallowest(paths) == {x \in paths : \A y \in paths : Len(x) <= Len(y)}

\* one pass of the loop over all_dirs
CopyDir ==
    /\ pc = "dirs"
    /\ \E rel_path \in Deepest(pending) :
          \E new_rel_path \in {translated_dirs(translation_map, rel_path)} :
             /\ pending' = pending \ {rel_path}
             /\ dest' = IF run.dry_run THEN dest ELSE mkdir(dest, new_rel_path)
             /\ report' = IF run.dry_run /\ new_rel_path # rel_path
                          THEN report \cup {[tag |-> "Would rename directory",
                                             from |-> rel_path, to |-> new_rel_path]}
                          ELSE report
             /\ last' = [op |-> "copy", from |-> rel_path, to |-> new_rel_path,
                         href |-> translate_url(translation_map,
                                      build_variations(EmptyMap, translation_map),
                                      {}, join(rel_path, "/")).value]
    /\ UNCHANGED <<copyFrame, pc, translations, long_translations, translation_map,
                   missing_translations, run>>

\* the directories are done: the loop over all_files begins
ListFiles ==
    /\ pc = "dirs"
    /\ pending = {}
    /\ pc' = "files"
    /\ pending' = tree.files
    /\ UNCHANGED <<copyFrame, translations, long_translations, translation_map,
                   missing_translations, run, report, dest, last>>

\* the body of the loop over all_files when it is no dry run; r is what
\* translate_html_file returns for a page
copied(d, rel_path, new_rel_path, r) ==
    [dest |-> write(mkdir(d, Front(new_rel_path)), "out", new_rel_path),
     missing |-> IF IsHtml(rel_path[Len(rel_path)]) THEN r.missing ELSE {},
     printed |-> IF IsHtml(rel_path[Len(rel_path)]) /\ Cardinality(r.missing) > 5
                 THEN {[tag |-> "Note", from |-> rel_path,
                        count |-> Cardinality(r.missing)]}
                 ELSE {}]

\* the body of the loop over all_files in a dry run
planned(d, rel_path, new_rel_path) ==
    [dest |-> d,
     missing |-> {},
     printed |-> (IF new_rel_path # rel_path
                  THEN {[tag |-> "Would rename file", from |-> rel_path,
                         to |-> new_rel_path]}
                  ELSE {})
                 \cup (IF IsHtml(rel_path[Len(rel_path)])
                       THEN {[tag |-> "Would translate", from |-> rel_path]}
                       ELSE {})]

\* one pass of the loop over all_files
CopyFile ==
    /\ pc = "files"
    /\ \E rel_path \in Shallowest(pending) :
          \E new_rel_path \in {new_file_path(translation_map, rel_path)} :
             \E c \in {IF run.dry_run THEN planned(dest, rel_path, new_rel_path)
                       ELSE copied(dest, rel_path, new_rel_path,
                                   translate_html_file(translation_map, run.page))} :
                /\ pending' = pending \ {rel_path}
                /\ dest' = c.dest
                /\ missing_translations' = c.missing
                /\ report' = report \cup c.printed
                /\ last' = [op |-> "copy", from |-> rel_path, to |-> new_rel_path,
                            href |-> translate_url(translation_map,
                                         build_variations(EmptyMap, translation_map),
                                         {}, join(rel_path, "/")).value]
    /\ UNCHANGED <<copyFrame, pc, translations, long_translations, translation_map,
                   run>>

\* rename_mode(): the summary, which lists counts only, and status 0
RenameSummary ==
    /\ pc = "files"
    /\ pending = {}
    /\ pc' = "exit0"
    /\ report' = report \cup {[tag |-> "Summary", unresolved |-> {}]}
    /\ UNCHANGED <<copyFrame, translations, long_translations, translation_map,
                   missing_translations, run, pending, dest, last>>

\* main() in translation mode: the pages are listed, the output directory is
\* created when one is given; the run ends when there is no page
StartTranslate ==
    /\ pc = "loaded"
    /\ ~run.rename
    /\ pending' = {f \in tree.files : IsHtml(f[Len(f)])}
    /\ IF pending' = {}
       THEN pc' = "exit0" /\ UNCHANGED dest
       ELSE /\ pc' = "translating"
            /\ dest' = IF run.output_dir THEN mkdir(dest, <<>>) ELSE dest
    /\ UNCHANGED <<copyFrame, translations, long_translations, translation_map,
                   missing_translations, run, report, last>>

\* one pass of the loop over html_files: the page is written to the output
\* directory or over the file itself
TranslateFile ==
    /\ pc = "translating"
    /\ \E rel_path \in pending :
          \E r \in {translate_html_file(translation_map, run.page)} :
             /\ pending' = pending \ {rel_path}
             /\ dest' = IF run.output_dir
                        THEN write(mkdir(dest, Front(rel_path)), "out", rel_path)
                        ELSE write(dest, "src", rel_path)
             /\ missing_translations' = r.missing
             /\ run' = [run EXCEPT !.all_missing = @ \cup r.missing]
             /\ last' = [op |-> "translate", from |-> rel_path]
    /\ UNCHANGED <<copyFrame, pc, translations, long_translations, translation_map,
                   report>>

\* one pass of the loop over all_files in which the operation on the file
\* fails: translate_html_file catches the failure of open() for reading or
\* for writing and prints it; nothing catches the failure of shutil.copy2
CopyFileFails ==
    /\ pc = "files"
    /\ ~run.dry_run
    /\ \E rel_path \in Shallowest(pending), io \in {"reading", "writing"} :
          \E new_rel_path \in {new_file_path(translation_map, rel_path)} :
             /\ dest' = mkdir(dest, Front(new_rel_path))
             /\ IF IsHtml(rel_path[Len(rel_path)])
                THEN /\ pc' = pc
                     /\ pending' = pending \ {rel_path}
                     /\ missing_translations' =
                           IF io = "reading" THEN {}
                           ELSE translate_html_file(translation_map, run.page).missing
                     /\ report' = report \cup {[tag |-> "Error", io |-> io,
                                                from |-> rel_path]}
                ELSE /\ pc' = "raised"
                     /\ UNCHANGED <<pending, missing_translations, report>>
             /\ last' = [op |-> "io_error", from |-> rel_path, io |-> io]
    /\ UNCHANGED <<copyFrame, translations, long_translations, translation_map, run>>

\* one pass of the loop over html_files in which open() fails
TranslateFileFails ==
    /\ pc = "translating"
    /\ \E rel_path \in pending, io \in {"reading", "writing"} :
          /\ pending' = pending \ {rel_path}
          /\ dest' = IF run.output_dir THEN mkdir(dest, Front(rel_path)) ELSE dest
          /\ missing_translations' =
                IF io = "reading" THEN {}
                ELSE translate_html_file(translation_map, run.page).missing
          /\ run' = [run EXCEPT !.all_missing = @ \cup missing_translations']
          /\ report' = report \cup {[tag |-> "Error", io |-> io, from |-> rel_path]}
          /\ last' = [op |-> "io_error", from |-> rel_path, io |-> io]
    /\ UNCHANGED <<copyFrame, pc, translations, long_translations, translation_map>>

\* main() in translation mode: the summary lists the texts not found
TranslateSummary ==
    /\ pc = "translating"
    /\ pending = {}
    /\ pc' = "exit0"
    /\ report' = report \cup {[tag |-> "Summary",
                               unresolved |-> listed_missing(run.all_missing)]}
    /\ UNCHANGED <<copyFrame, translations, long_translations, translation_map,
                   missing_translations, run, pending, dest, last>>

NextCopy ==
    \/ Validate
    \/ LoadTables
    \/ StartRename
    \/ CopyDir
    \/ ListFiles
    \/ CopyFile
    \/ RenameSummary
    \/ StartTranslate
    \/ TranslateFile
    \/ TranslateSummary
    \/ CopyFileFails
    \/ TranslateFileFails

SpecCopy == InitCopy /\ [][NextCopy]_vars

\* the href of a link to a copied entry is its path before the run
Copied == last.op = "copy"

\* C13: the path rename_path_components gives a file or directory is the
\* path _translate_url writes for a link to it.
C13_RenameMatchesLink ==
    Copied => last.href = join(last.to, "/")

\* C17: in a run with --rename no destination is written twice, and a file
\* that was in the output tree before the run is not written.
C17_NoDestinationWrittenTwice ==
    run.rename =>
        /\ \A i, j \in 1..Len(dest.writes) : dest.writes[i] = dest.writes[j] => i = j
        /\ \A i \in 1..Len(dest.writes) : dest.writes[i].path \notin dest.before

\* the output tree as it was before the run
DestBefore ==
    [dirs |-> IF dest.before = {} THEN {} ELSE {<<>>}, files |-> dest.before,
     before |-> dest.before, writes |-> <<>>]

\* the directory argument is no directory, a table is there without the
\* column en, no table is there, or --rename comes without --output-dir
StructuralFailure ==
    \/ run.directory # "dir"
    \/ "no_en" \in {csv_rows.short.state, csv_rows.long.state}
    \/ {csv_rows.short.state, csv_rows.long.state} = {"absent"}
    \/ run.rename /\ ~run.output_dir

\* C19: a run that meets a structural failure ends with a status that is not
\* zero, and has created and written nothing.
C19_StructuralFailureStops ==
    StructuralFailure =>
        /\ pc # "exit0"
        /\ dest = DestBefore

\* the strings the summary of the run lists as not found
Unresolved == UNION {m.unresolved : m \in {x \in report : x.tag = "Summary"}}

\* C20: when the run has ended, every string whose lookup failed in the last
\* file is in the set the summary reports.
C20_UnresolvedReported ==
    pc = "exit0" => missing_translations \subseteq Unresolved

\* C24: a failure to read, write or copy one file is printed and ends the
\* handling of that file only: the exception does not leave the loop over the
\* files.
C24_FileFailureIsLogged ==
    last.op = "io_error" =>
        /\ pc # "raised"
        /\ \E m \in report : m.tag = "Error" /\ m.from = last.from

----------------------------------------------------------------------------
(* Specification SpecTree: one run of rename_files.py with --recursive and   *)
(* --rename-dirs over a tree given by its paths.  A path is the sequence of  *)
(* its parts, the first part being the directory given with --dir; the       *)
(* trees are up to MaxDepth parts deep and hold up to MaxEntries files.      *)

MaxDepth == 3

\* fnmatch of a name against "*.html"
glob_html(name) ==
    /\ Len(name) >= Len(Html)
    /\ SubSeq(name, Len(name) - Len(Html) + 1, Len(name)) = Html

\* Path.stem: the name without its last suffix
path_stem(name) ==
    IF LastIn(name, {"."}) > 1 /\ LastIn(name, {"."}) < Len(name)
    THEN rsplit1(name, ".")[1]
    ELSE name

\* Path.with_name
with_name(path, name) == Append(Front(path), name)

Entries(tr) == tr.files \cup tr.dirs

\* the path x after path.rename(new_path): x is the entry or is below it
Moved(x, path, new_path) ==
    IF IsPrefix(path, x)
    THEN new_path \o SubSeq(x, Len(path) + 1, Len(x))
    ELSE x

\* path.rename(new_path) on a tree of paths
RenamePath(tr, path, new_path) ==
    [files |-> {Moved(x, path, new_path) : x \in tr.files},
     dirs |-> {Moved(x, path, new_path) : x \in tr.dirs}]

\* root.rglob("*.html"): the entries below the root whose name matches,
\* files and directories alike
rglob_html(tr) == {x \in Entries(tr) : Len(x) > 1 /\ glob_html(x[Len(x)])}

\* the entries the generator can yield next: a directory is listed before
\* it is entered, and no entry is yielded twice
iter_html_files(tr, yielded) ==
    {x \in rglob_html(tr) \ yielded :
        \A k \in 2..(Len(x) - 1) : SubSeq(x, 1, k) \notin rglob_html(tr) \ yielded}

\* [p for p in root.rglob("*") if p.is_dir()] and the root: the list that
\* iter_dirs_bottom_up sorts
iter_dirs_bottom_up(tr) == tr.dirs

\* what the handler h reads of the path: concept, stem or dir_name
read_name(path, h) ==
    IF h = "file" THEN path_stem(path[Len(path)]) ELSE path[Len(path)]

\* handle_non_wikidata_for_path: the identifier that is looked up is the stem
\* of a file and the name of anything else
path_identifier(path, tr) ==
    IF path \in tr.files THEN path_stem(path[Len(path)]) ELSE path[Len(path)]

\* the first half of the handler h called on a path
path_new_name(path, h, rn, mp, tr) ==
    IF rn.lang = "wikidata"
    THEN wikidata_name(read_name(path, h), mp.labels.by_en, mp.concepts.by_en)
    ELSE IF QID_RE(read_name(path, h)) /\ path_identifier(path, tr) # read_name(path, h)
    THEN IF GetOr(mp.labels.by_id, mp.concepts.by_id, path_identifier(path, tr)) = <<>>
         THEN [verdict |-> "MISSING ID", name |-> <<>>]
         ELSE non_wikidata_name(read_name(path, h), rn.lang,
                  <<<<read_name(path, h),
                      GetOr(mp.labels.by_id, mp.concepts.by_id,
                            path_identifier(path, tr))[1]>>>>, <<>>)
    ELSE non_wikidata_name(read_name(path, h), rn.lang, mp.labels.by_id,
                           mp.concepts.by_id)

\* the second half of the handler h called on a path, d being the new name
\* and e what is printed of the entry
handle_entry(path, new_path, e, d, rn, tr, rows) ==
    CASE d.verdict = "TRANSLATED" ->
            [tree |-> tr, path |-> path, printed |-> {},
             missing |-> [rows |-> rows, existing |-> rn.existing]]
      [] d.verdict = "MISSING CONCEPT" ->
            [tree |-> tr, path |-> path,
             printed |-> {Message(rn, "MISSING CONCEPT", e, <<>>)},
             missing |-> add_missing_concept(e.name,
                             [rows |-> rows, existing |-> rn.existing])]
      [] d.verdict \in {"INVALID ROW", "MISSING ID", "MISSING LABEL"} ->
            [tree |-> tr, path |-> path,
             printed |-> {Message(rn, d.verdict, e, <<>>)},
             missing |-> [rows |-> rows, existing |-> rn.existing]]
      [] d.verdict = "RENAME" /\ new_path = path ->
            [tree |-> tr, path |-> path, printed |-> {},
             missing |-> [rows |-> rows, existing |-> rn.existing]]
      [] d.verdict = "RENAME" /\ new_path # path /\ new_path \in Entries(tr) ->
            [tree |-> tr, path |-> path,
             printed |-> {Message(rn, "SKIP COLLISION", e, d.name)},
             missing |-> [rows |-> rows, existing |-> rn.existing]]
      [] OTHER ->
            [tree |-> IF rn.dry_run THEN tr ELSE RenamePath(tr, path, new_path),
             path |-> IF rn.dry_run THEN path ELSE new_path,
             printed |-> {Message(rn, "RENAME", e, d.name)},
             missing |-> [rows |-> rows, existing |-> rn.existing]]

HtmlName(stem) == stem \o Html

\* a nested tree, a root whose name has a label, a directory whose name ends
\* in .html, two directories that go to one name, a tree of identifiers, and
\* a tree four parts deep
TreeShapes ==
    {[dirs |-> {<<<<"r">>>>, <<<<"r">>, <<"d">>>>, <<<<"r">>, <<"d">>, <<"f">>>>},
      files |-> {<<<<"r">>, HtmlName(<<"p">>)>>,
                 <<<<"r">>, <<"d">>, <<"f">>, HtmlName(<<"p">>)>>}],
     [dirs |-> {<<<<"p">>>>, <<<<"p">>, <<"d">>>>},
      files |-> {<<<<"p">>, HtmlName(<<"f">>)>>}],
     [dirs |-> {<<<<"r">>>>, <<<<"r">>, HtmlName(<<"p">>)>>},
      files |-> {<<<<"r">>, HtmlName(<<"p">>), HtmlName(<<"p">>)>>}],
     [dirs |-> {<<<<"r">>>>, <<<<"r">>, <<"d">>>>, <<<<"r">>, Q7>>,
                <<<<"r">>, <<"d">>, <<"d">>>>},
      files |-> {<<<<"r">>, HtmlName(Q9)>>}],
     [dirs |-> {<<Q9>>, <<Q9, Q7>>},
      files |-> {<<Q9, Q7, HtmlName(Q9)>>, <<Q9, HtmlName(Q7)>>}],
     [dirs |-> {<<<<"r">>>>, <<<<"r">>, <<"d">>>>, <<<<"r">>, <<"d">>, <<"p">>>>,
                <<<<"r">>, <<"d">>, <<"p">>, <<"d">>>>},
      files |-> {<<<<"r">>, <<"d">>, <<"p">>, <<"d">>, HtmlName(<<"p">>)>>}]}

PathTrees ==
    {t \in TreeShapes :
        /\ Cardinality(t.files) <= MaxEntries
        /\ \A x \in t.dirs : Len(x) <= MaxDepth}

InitTree ==
    /\ pc = "start"
    /\ csv_rows = NoRows
    /\ translations = <<>>
    /\ long_translations = <<>>
    /\ translation_map = <<>>
    /\ lookup_variations = EmptyMap
    /\ missing_translations = {}
    /\ output = <<>>
    /\ skip_level = 0
    /\ labels = <<>>
    /\ last = NoCall
    /\ \E t \in IdentifierTables : labels_csv = t[1] /\ concepts_csv = t[2]
    /\ maps = <<>>
    /\ tree \in PathTrees
    /\ tree0 = tree
    /\ run = [n |-> 0]
    /\ pending = {}
    /\ report = {}
    /\ missing_csv = <<>>
    /\ dest = NoDest

\* main() up to the loop over the files
StartTree ==
    /\ pc = "start"
    /\ pc' = "files"
    /\ maps' = [labels |-> load_csv_as_maps(labels_csv, NoMaps),
                concepts |-> load_csv_as_maps(concepts_csv, NoMaps)]
    /\ \E lang \in {"wikidata", "en", "fr"}, dry_run \in BOOLEAN :
          run' = [n |-> 1, lang |-> lang, dry_run |-> dry_run,
                  existing |-> load_existing_missing(missing_csv),
                  yielded |-> {}]
    /\ UNCHANGED <<translateVars, labels, labels_csv, concepts_csv, tree, tree0,
                   pending, report, missing_csv, dest, last>>

\* one pass of a loop of main(): the handler h is called on the path, which
\* the loop has from its generator; left is what the loop has still to yield
HandleTreePath(path, h, left) ==
    \E r \in {handle_entry(path, with_name(path, path_new_name(path, h, run, maps, tree).name
                                              \o (IF h = "file" THEN Html ELSE <<>>)),
                           [kind |-> h, name |-> read_name(path, h)],
                           path_new_name(path, h, run, maps, tree),
                           run, tree, missing_csv)} :
       /\ tree' = r.tree
       /\ report' = report \cup r.printed
       /\ missing_csv' = r.missing.rows
       /\ run' = [run EXCEPT !.existing = r.missing.existing,
                             !.yielded = {Moved(x, path, r.path) : x \in @}
                                            \cup {r.path}]
       /\ last' = [op |-> "handle", path |-> path, handler |-> h,
                   valid |-> path \in Entries(tree),
                   is_dir |-> path \in tree.dirs,
                   files_left |-> {x \in rglob_html(tree) \ run.yielded :
                                      x \in tree.files /\ x # path},
                   dirs_left |-> left,
                   above_done |-> \E k \in 1..(Len(path) - 1) :
                                     SubSeq(path, 1, k) \in run.yielded,
                   printed |-> r.printed]
       /\ UNCHANGED <<translateVars, pc, labels, labels_csv, concepts_csv, maps,
                      tree0, dest>>

\* the loop over iter_html_files(root, recursive)
HandleHtml ==
    /\ pc = "files"
    /\ \E path \in iter_html_files(tree, run.yielded) :
          /\ HandleTreePath(path, "file", {})
          /\ UNCHANGED pending

\* the files are done: iter_dirs_bottom_up lists the directories
ListTreeDirs ==
    /\ pc = "files"
    /\ iter_html_files(tree, run.yielded) = {}
    /\ pc' = "dirs"
    /\ pending' = iter_dirs_bottom_up(tree)
    /\ UNCHANGED <<translateVars, labels, labels_csv, concepts_csv, maps, tree, tree0,
                   run, report, missing_csv, dest, last>>

\* the loop over iter_dirs_bottom_up(root, recursive): the list is sorted by
\* the number of parts, the longest first
HandleTreeDir ==
    /\ pc = "dirs"
    /\ \E path \in Deepest(pending) :
          /\ pending' = pending \ {path}
          /\ HandleTreePath(path, "dir", pending \ {path})

EndTree ==
    /\ pc = "dirs"
    /\ pending = {}
    /\ pc' = "ran"
    /\ UNCHANGED <<translateVars, labels, renameVars, last>>

NextTree ==
    \/ StartTree
    \/ HandleHtml
    \/ ListTreeDirs
    \/ HandleTreeDir
    \/ EndTree

SpecTree == InitTree /\ [][NextTree]_vars

\* C22: a directory is handled after all files and before each directory
\* above it, and the path a handler is called on names an entry of the tree
\* at that time.
C22_DirsBottomUpAfterFiles ==
    last.op = "handle" =>
        /\ last.valid
        /\ last.is_dir =>
              /\ last.files_left = {}
              /\ ~last.above_done
              /\ \A x \in last.dirs_left : Len(x) <= Len(last.path)

\* C28: the run renames entries below the root only: the root keeps its
\* name, and its name is not put in missing.csv.
C28_RootKept ==
    /\ \A x \in tree.dirs : Len(x) = 1 => x \in tree0.dirs
    /\ \A x \in tree0.dirs :
          Len(x) = 1 => \A i \in 1..Len(missing_csv) : missing_csv[i] # x[1]

----------------------------------------------------------------------------
(* extract_html_textual_elements.py: TranslationExtractor.  An extractor x   *)
(* is [texts, current_text, skip_level].                                     *)

BLOCK_TAGS ==
    {"p", "div", "h1", "h2", "h3", "h4", "h5", "h6", "li", "td", "th",
     "blockquote", "article", "section", "header", "footer", "aside", "main",
     "nav", "title"}

\* TranslationExtractor._clean_text
clean_text(text) == strip(collapse_ws(text))

\* the texts handle_starttag adds for the attributes of a tag
attr_texts(tok) ==
    {clean_text(tok.attrs[i][2]) :
        i \in {j \in 1..Len(tok.attrs) :
                 /\ tok.attrs[j][1] \in TRANSLATABLE_ATTRS
                 /\ tok.attrs[j][2] \notin {<<>>, None}}}
    \cup (IF /\ tok.tag = "meta"
             /\ AttrGet(tok.attrs, "name") = Description
             /\ \E i \in 1..Len(tok.attrs) : tok.attrs[i][1] = "content"
          THEN {clean_text(AttrGet(tok.attrs, "content"))}
          ELSE {})

\* TranslationExtractor._flush_current_text
flush_current_text(x) ==
    IF x.current_text = <<>> THEN x
    ELSE [x EXCEPT !.texts = @ \cup ({clean_text(join(x.current_text, " "))} \ {<<>>}),
                   !.current_text = <<>>]

extract_starttag(x, tok) ==
    IF tok.tag \in SKIP_TAGS THEN [x EXCEPT !.skip_level = @ + 1]
    ELSE IF x.skip_level > 0 THEN x
    ELSE [x EXCEPT !.texts = @ \cup (attr_texts(tok) \ {<<>>})]

extract_endtag(x, tok) ==
    IF tok.tag \in SKIP_TAGS
    THEN [x EXCEPT !.skip_level = IF @ - 1 > 0 THEN @ - 1 ELSE 0]
    ELSE IF x.skip_level > 0 THEN x
    ELSE IF tok.tag \in BLOCK_TAGS THEN flush_current_text(x)
    ELSE x

extract_data(x, tok) ==
    IF x.skip_level > 0 THEN x
    ELSE IF strip(tok.data) # <<>>
    THEN [x EXCEPT !.current_text = Append(@, tok.data)]
    ELSE x

\* HTMLParser.feed for one token of the extractor
extract_token(x, tok) ==
    CASE tok.kind = "starttag" -> extract_starttag(x, tok)
      [] tok.kind = "endtag" -> extract_endtag(x, tok)
      [] tok.kind = "data" -> extract_data(x, tok)
      [] OTHER -> x

NewExtractor == [texts |-> {}, current_text |-> <<>>, skip_level |-> 0]

(* Specification SpecExtract: one document of up to MaxFed tokens is fed to  *)
(* a TranslationExtractor and to a TranslationReplacer.  run holds the       *)
(* extractor, the tokens fed, the texts the rewriter has looked up, and for  *)
(* every block element that is open the text runs met since its start tag.  *)

MaxFed == 5

FedTokens ==
    {Token("data", "", <<>>, d, "canonical") : d \in {<<"a">>, <<"b">>, <<" ">>}}
    \cup {Token("starttag", t, <<>>, <<>>, "canonical") : t \in {"p", "br", "script"}}
    \cup {Token("endtag", t, <<>>, <<>>, "canonical") : t \in {"p", "script"}}

ExtractTables == {<< << <<"a">>, <<"c">> >> >>, << << <<"a", " ", "b">>, <<"c">> >> >>}

InitExtract ==
    /\ pc = "ready"
    /\ csv_rows = NoRows
    /\ translations = <<>>
    /\ long_translations = <<>>
    /\ translation_map \in ExtractTables
    /\ lookup_variations = build_variations(EmptyMap, translation_map)
    /\ missing_translations = {}
    /\ output = <<>>
    /\ skip_level = 0
    /\ labels = <<>>
    /\ last = NoCall
    /\ labels_csv = <<>>
    /\ concepts_csv = <<>>
    /\ maps = <<>>
    /\ tree = NoTree
    /\ tree0 = NoTree
    /\ run = [n |-> 0, extractor |-> NewExtractor, fed |-> <<>>, looked |-> {},
              open |-> <<>>]
    /\ pending = {}
    /\ report = {}
    /\ missing_csv = <<>>
    /\ dest = NoDest

\* the open block elements after the token: a start tag opens one, a text
\* run outside a skip region is inside all of them, an end tag closes the
\* last one of its name
OpenAfter(open, x, tok) ==
    CASE tok.kind = "starttag" /\ tok.tag \in BLOCK_TAGS /\ x.skip_level = 0 ->
            Append(open, [tag |-> tok.tag, runs |-> <<>>])
      [] tok.kind = "data" /\ x.skip_level = 0 /\ strip(tok.data) # <<>> ->
            [i \in 1..Len(open) |-> [open[i] EXCEPT !.runs = Append(@, tok.data)]]
      [] /\ tok.kind = "endtag" /\ x.skip_level = 0
         /\ \E i \in 1..Len(open) : open[i].tag = tok.tag ->
            SubSeq(open, 1, (CHOOSE i \in 1..Len(open) :
                                /\ open[i].tag = tok.tag
                                /\ \A j \in (i + 1)..Len(open) : open[j].tag # tok.tag) - 1)
      [] OTHER -> open

\* the text runs inside the element that the end tag closes
InsideClosed(open, tok) ==
    IF \E i \in 1..Len(open) : open[i].tag = tok.tag
    THEN open[CHOOSE i \in 1..Len(open) :
                 /\ open[i].tag = tok.tag
                 /\ \A j \in (i + 1)..Len(open) : open[j].tag # tok.tag].runs
    ELSE <<>>

\* parser.feed(content) of both parsers, one token at a time
Feed(tok) ==
    /\ pc = "ready"
    /\ Len(run.fed) < MaxFed
    /\ \E r \in {feed_token(translation_map, lookup_variations,
                            [output |-> output, skip_level |-> skip_level,
                             missing |-> missing_translations], tok)} :
          /\ output' = r.output
          /\ skip_level' = r.skip_level
          /\ missing_translations' = r.missing
          /\ run' = [run EXCEPT !.extractor = extract_token(@, tok),
                                !.fed = Append(@, tok),
                                !.looked = @ \cup r.looked,
                                !.open = OpenAfter(@, run.extractor, tok)]
          /\ last' = [op |-> "extract", tok |-> tok, looked |-> r.looked,
                      skip_before |-> run.extractor.skip_level,
                      current_text |-> run.extractor.current_text,
                      closes |-> \E i \in 1..Len(run.open) : run.open[i].tag = tok.tag,
                      inside |-> InsideClosed(run.open, tok)]
    /\ UNCHANGED <<pc, csv_rows, translations, long_translations, translation_map,
                   lookup_variations, labels, labels_csv, concepts_csv, maps, tree,
                   tree0, pending, report, missing_csv, dest>>

FeedStartTag ==
    /\ pc = "ready"
    /\ \E tok \in {t \in FedTokens : t.kind = "starttag"} : Feed(tok)

FeedEndTag ==
    /\ pc = "ready"
    /\ \E tok \in {t \in FedTokens : t.kind = "endtag"} : Feed(tok)

\* the parser hands over the text between two tags in one call
FeedData ==
    /\ pc = "ready"
    /\ ~(last.op = "extract" /\ last.tok.kind = "data")
    /\ \E tok \in {t \in FedTokens : t.kind = "data"} : Feed(tok)

\* the document has ended: get_texts() flushes what is left
GetTexts ==
    /\ pc = "ready"
    /\ run.fed # <<>>
    /\ pc' = "extracted"
    /\ run' = [run EXCEPT !.extractor = flush_current_text(@)]
    /\ last' = [op |-> "get_texts"]
    /\ UNCHANGED <<csv_rows, translations, long_translations, translation_map,
                   lookup_variations, missing_translations, output, skip_level,
                   labels, labels_csv, concepts_csv, maps, tree, tree0, pending,
                   report, missing_csv, dest>>

NextExtract ==
    \/ FeedStartTag
    \/ FeedEndTag
    \/ FeedData
    \/ GetTexts

SpecExtract == InitExtract /\ [][NextExtract]_vars

\* C25: every text the extractor has recorded for the document is, up to
\* the normalization of the lookup, a text the rewriter has looked up.
C25_ExtractedKeysAreLookedUp ==
    pc = "extracted" =>
        \A key \in run.extractor.texts :
            \E text \in run.looked : normalize_text(text) = key

\* C30: the text runs joined into the key that is recorded when a block
\* element closes are the text runs met inside that element.
C30_KeyFromInsideTheBlock ==
    (/\ last.op = "extract"
     /\ last.tok.kind = "endtag"
     /\ last.tok.tag \in BLOCK_TAGS
     /\ last.closes
     /\ last.skip_before = 0) =>
        last.current_text = last.inside

====
